---- MODULE Spec2Model ----
(***************************************************************************)
(* Model of the dataset-acquisition scripts: keyword classification        *)
(* (classify_by_filename), the CUAD matter allocator (main / save_matter), *)
(* the URL and destination-path dedupe gates and the download retry loop.  *)
(* File names, paths and URLs are strings; TLC evaluates Len, \o and       *)
(* SubSeq on strings, so substring tests are computed character by         *)
(* character as Python's `in` does.                                        *)
(***************************************************************************)
EXTENDS Integers, Sequences, FiniteSets, TLC

VARIABLES
    mode,          \* which script the behaviour runs
    c_filename,    \* classify_by_filename: argument
    c_result,      \* classify_by_filename: return value ("" before the call)
    tree,          \* CUAD: paths of the files under extract_path, in os.walk order
    pc,            \* CUAD: position in main()
    run,           \* CUAD: number of the current run of the script
    pdf_files,     \* CUAD: main's pdf_files
    processed,     \* CUAD: main's processed
    matter_counts, \* CUAD: main's matter_counts
    matter_docs,   \* CUAD: main's matter_docs
    out_fs,        \* CUAD: files under OUTPUT_PATH, destination path -> source copied
    out_prev,      \* CUAD: out_fs as it was when the current run started
    saves,         \* CUAD: the save_matter calls of the current run
    clobbered,     \* CUAD: destinations the current run copied onto an existing file
    s_script,      \* SEC: which extraction script runs ("filings" or "expanded")
    s_disk,        \* SEC: the files of the downloaded filings under TEMP_PATH
    s_pos,         \* SEC: position in the (ticker, filing_type) loops
    s_run,         \* SEC: number of the current run of the script
    s_out,         \* SEC: files under OUTPUT_PATH, output path -> file copied
    s_out_prev,    \* SEC: s_out as it was when the current run started
    s_total_found, \* SEC: total_found of the current run
    s_done,        \* SEC: pairs whose try block completed in the current run
    s_seen,        \* SEC: pairs whose try block completed in an earlier run
    s_clobbered,   \* SEC: output paths the current run copied onto an existing file
    s_failures,    \* SEC: number of dl.get calls that raised so far
    s_last_op,     \* SEC: the last of "request" and "sleep" the run executed
    s_unpaced,     \* SEC: whether a request directly followed another request
    u_fn,          \* side letters: which search_and_download_* function runs
    u_pc,          \* side letters: position in the function
    u_query,       \* side letters: number of queries searched so far
    u_all_results, \* side letters: all_results
    u_unique,      \* side letters: unique_results
    u_pos,         \* side letters: number of results of the download loop done
    u_downloaded,  \* side letters: downloaded
    u_requested,   \* side letters: the URLs requested by download_with_sec_headers
    u_failed,      \* side letters: number of downloads that failed
    d_url,         \* download_file: url (rewritten when it holds a space)
    d_pc,          \* download_file: "try" inside the loop, "done" after the call
    d_attempt,     \* download_file: number of attempts made
    d_result,      \* download_file: "True", "False", "raised", or "" while running
    d_file,        \* download_file: the file at dest_path
    d_events,      \* download_file: the requests and sleeps of the call
    f_fn,          \* fund formation: which download_*_documents function runs
    f_pc,          \* fund formation: position in the function
    f_idx,         \* fund formation: number of configured documents gone through
    f_fs,          \* fund formation: the files under OUTPUT_PATH
    f_total,       \* fund formation: total_downloaded
    f_log,         \* fund formation: what happened to each document, in order
    z_pc,          \* CUAD archive: position in main's download and extraction
    z_run,         \* CUAD archive: number of the current run of the script
    z_zip,         \* CUAD archive: the file TEMP_PATH/CUAD_v1.zip
    z_extracted,   \* CUAD archive: whether TEMP_PATH/CUAD_v1 exists
    z_tried,       \* CUAD archive: the sources contacted in this run, with outcomes
    z_abort,       \* CUAD archive: what ended the run early, "" when nothing did
    g_script,      \* find_fund_docs_in_filing: the script whose function is called
    g_files,       \* find_fund_docs_in_filing: the files of the filing, in walk order
    g_pc,          \* find_fund_docs_in_filing: "call" before, "done" after the call
    g_result       \* find_fund_docs_in_filing: the returned fund_docs

classifyVars == <<c_filename, c_result>>

cuadVars == <<tree, pc, run, pdf_files, processed, matter_counts, matter_docs,
              out_fs, out_prev, saves, clobbered>>

secVars == <<s_script, s_disk, s_pos, s_run, s_out, s_out_prev, s_total_found,
             s_done, s_seen, s_clobbered, s_failures, s_last_op, s_unpaced>>

urlVars == <<u_fn, u_pc, u_query, u_all_results, u_unique, u_pos, u_downloaded,
             u_requested, u_failed>>

dlVars == <<d_url, d_pc, d_attempt, d_result, d_file, d_events>>

formVars == <<f_fn, f_pc, f_idx, f_fs, f_total, f_log>>

zipVars == <<z_pc, z_run, z_zip, z_extracted, z_tried, z_abort>>

findVars == <<g_script, g_files, g_pc, g_result>>

vars == <<mode, classifyVars, cuadVars, secVars, urlVars, dlVars, formVars, zipVars,
          findVars>>

(***************************************************************************)
(* Strings                                                                 *)
(***************************************************************************)
UpperChars == "ABCDEFGHIJKLMNOPQRSTUVWXYZ"

LowerChars == "abcdefghijklmnopqrstuvwxyz"

CharAt(s, i) == SubSeq(s, i, i)

\* str.lower() on one character
LowerChar(c) ==
    IF \E i \in 1..Len(UpperChars) : CharAt(UpperChars, i) = c
    THEN CharAt(LowerChars, CHOOSE i \in 1..Len(UpperChars) : CharAt(UpperChars, i) = c)
    ELSE c

RECURSIVE StrLower(_)
\* str.lower()
StrLower(s) ==
    IF Len(s) = 0 THEN s
    ELSE LowerChar(CharAt(s, 1)) \o StrLower(SubSeq(s, 2, Len(s)))

\* ord() of the characters that occur in the modelled names
OrdTable ==
    (" " :> 32) @@ ("-" :> 45) @@ ("." :> 46) @@ ("/" :> 47) @@ ("0" :> 48) @@ ("1" :> 49) @@
    ("2" :> 50) @@ ("3" :> 51) @@ ("4" :> 52) @@ ("5" :> 53) @@ ("6" :> 54) @@ ("7" :> 55) @@
    ("8" :> 56) @@ ("9" :> 57) @@ ("A" :> 65) @@ ("B" :> 66) @@ ("C" :> 67) @@ ("D" :> 68) @@
    ("E" :> 69) @@ ("F" :> 70) @@ ("G" :> 71) @@ ("H" :> 72) @@ ("I" :> 73) @@ ("J" :> 74) @@
    ("K" :> 75) @@ ("L" :> 76) @@ ("M" :> 77) @@ ("N" :> 78) @@ ("O" :> 79) @@ ("P" :> 80) @@
    ("Q" :> 81) @@ ("R" :> 82) @@ ("S" :> 83) @@ ("T" :> 84) @@ ("U" :> 85) @@ ("V" :> 86) @@
    ("W" :> 87) @@ ("X" :> 88) @@ ("Y" :> 89) @@ ("Z" :> 90) @@ ("_" :> 95) @@ ("a" :> 97) @@
    ("b" :> 98) @@ ("c" :> 99) @@ ("d" :> 100) @@ ("e" :> 101) @@ ("f" :> 102) @@ ("g" :> 103) @@
    ("h" :> 104) @@ ("i" :> 105) @@ ("j" :> 106) @@ ("k" :> 107) @@ ("l" :> 108) @@ ("m" :> 109) @@
    ("n" :> 110) @@ ("o" :> 111) @@ ("p" :> 112) @@ ("q" :> 113) @@ ("r" :> 114) @@ ("s" :> 115) @@
    ("t" :> 116) @@ ("u" :> 117) @@ ("v" :> 118) @@ ("w" :> 119) @@ ("x" :> 120) @@ ("y" :> 121) @@
    ("z" :> 122)

Ord(c) == OrdTable[c]

RECURSIVE StrLessFrom(_, _, _)
StrLessFrom(a, b, i) ==
    IF i > Len(a) THEN i <= Len(b)
    ELSE IF i > Len(b) THEN FALSE
    ELSE IF CharAt(a, i) = CharAt(b, i) THEN StrLessFrom(a, b, i + 1)
    ELSE Ord(CharAt(a, i)) < Ord(CharAt(b, i))

\* Python `a < b` on strings
StrLess(a, b) == StrLessFrom(a, b, 1)

DigitChars == "0123456789"

RECURSIVE NatToStr(_)
\* str(n) / f"{n}" for n >= 0
NatToStr(n) ==
    IF n < 10 THEN CharAt(DigitChars, n + 1)
    ELSE NatToStr(n \div 10) \o CharAt(DigitChars, (n % 10) + 1)

\* str.rfind(c), 1-based, 0 when absent
RFind(s, c) ==
    LET hits == {i \in 1..Len(s) : CharAt(s, i) = c}
    IN  IF hits = {} THEN 0 ELSE CHOOSE i \in hits : \A j \in hits : j <= i

\* os.path.basename
basename(p) == SubSeq(p, RFind(p, "/") + 1, Len(p))

\* os.path.splitext: the extension starts at the last dot unless only dots
\* precede it in the last path component
splitext(p) ==
    LET sepIndex == RFind(p, "/")
        dotIndex == RFind(p, ".")
    IN  IF /\ dotIndex > sepIndex
           /\ \E k \in (sepIndex + 1)..(dotIndex - 1) : CharAt(p, k) # "."
        THEN <<SubSeq(p, 1, dotIndex - 1), SubSeq(p, dotIndex, Len(p))>>
        ELSE <<p, "">>

RECURSIVE SetToSeq(_)
\* the elements of a finite set in some order
SetToSeq(S) ==
    IF S = {} THEN <<>>
    ELSE LET x == CHOOSE y \in S : TRUE
         IN  <<x>> \o SetToSeq(S \ {x})

RECURSIVE FindSplit(_, _, _, _, _)
\* the number of elements of `a` among the first k of the merge of the sorted
\* lists a and b (equal elements: `a` first), by bisection of lo..hi
FindSplit(a, b, k, lo, hi) ==
    IF lo >= hi THEN lo
    ELSE LET mid == (lo + hi) \div 2
         IN  IF k - mid = 0 \/ mid = Len(a) \/ StrLess(b[k - mid], a[mid + 1])
             THEN FindSplit(a, b, k, lo, mid)
             ELSE FindSplit(a, b, k, mid + 1, hi)

\* merge of two sorted lists
MergeSorted(a, b) ==
    LET n == Len(a) + Len(b)
        At(k) ==
            LET i == FindSplit(a, b, k, IF k > Len(b) THEN k - Len(b) ELSE 0,
                               IF k < Len(a) THEN k ELSE Len(a))
                j == k - i
            IN  IF i = 0 THEN b[j]
                ELSE IF j = 0 THEN a[i]
                ELSE IF StrLess(b[j], a[i]) THEN a[i] ELSE b[j]
    IN  IF a = <<>> THEN b
        ELSE IF b = <<>> THEN a
        ELSE IF ~StrLess(Head(b), a[Len(a)]) THEN a \o b
        ELSE SubSeq([k \in 1..n |-> At(k)], 1, n)

RECURSIVE sorted(_)
\* Python sorted() on a list of strings
sorted(s) ==
    IF Len(s) <= 1 THEN s
    ELSE LET h == Len(s) \div 2
             a == sorted(SubSeq(s, 1, h))
             b == sorted(SubSeq(s, h + 1, Len(s)))
         IN  MergeSorted(a, b)

\* Python `k in s` on strings
StrContains(s, k) ==
    \E i \in 1..(Len(s) - Len(k) + 1) : SubSeq(s, i, i + Len(k) - 1) = k

(***************************************************************************)
(* download_cuad_contracts.py: classification                              *)
(***************************************************************************)
\* keys of PRACTICE_AREA_MAPPINGS in declaration (dict insertion) order
PracticeAreas ==
    <<"M_and_A", "Corporate", "IP_Licensing", "Commercial", "Employment", "Finance">>

PRACTICE_AREA_MAPPINGS ==
    [a \in {PracticeAreas[i] : i \in 1..Len(PracticeAreas)} |->
       CASE a = "M_and_A" ->
              <<"merger", "acquisition", "asset purchase", "stock purchase",
                "share purchase", "purchase agreement", "combination">>
         [] a = "Corporate" ->
              <<"joint venture", "collaboration", "strategic alliance",
                "partnership", "shareholder", "voting agreement", "stockholder">>
         [] a = "IP_Licensing" ->
              <<"license", "intellectual property", "patent", "software",
                "trademark", "royalty", "technology">>
         [] a = "Commercial" ->
              <<"supply", "distribution", "manufacturing", "service",
                "master service", "outsourcing", "hosting", "maintenance",
                "marketing", "reseller", "agency", "consulting", "vendor">>
         [] a = "Employment" ->
              <<"employment", "non-compete", "noncompete", "confidentiality",
                "nda", "non-disclosure", "nondisclosure", "separation", "severance">>
         [] a = "Finance" ->
              <<"credit", "loan", "security agreement", "guarantee",
                "note purchase", "indenture", "pledge", "financing">>]

AreaSet == {PracticeAreas[i] : i \in 1..Len(PracticeAreas)}

RECURSIVE ScanKeywords(_, _, _)
\* inner loop `for keyword in keywords: if keyword in name_lower`
ScanKeywords(name_lower, keywords, j) ==
    IF j > Len(keywords) THEN FALSE
    ELSE IF StrContains(name_lower, keywords[j]) THEN TRUE
    ELSE ScanKeywords(name_lower, keywords, j + 1)

RECURSIVE ScanAreas_Reversed(_, _)
ScanAreas_Reversed(name_lower, i) ==
    LET r == Len(PracticeAreas) + 1 - i
    IN  IF i > Len(PracticeAreas) THEN "Commercial"
        ELSE IF ScanKeywords(name_lower, PRACTICE_AREA_MAPPINGS[PracticeAreas[r]], 1)
             THEN PracticeAreas[r]
        ELSE ScanAreas_Reversed(name_lower, i + 1)

RECURSIVE ScanAreas_NoDefault(_, _)
ScanAreas_NoDefault(name_lower, i) ==
    IF i > Len(PracticeAreas) THEN "Unclassified"
    ELSE IF ScanKeywords(name_lower, PRACTICE_AREA_MAPPINGS[PracticeAreas[i]], 1)
         THEN PracticeAreas[i]
    ELSE ScanAreas_NoDefault(name_lower, i + 1)

RECURSIVE ScanAreas(_, _)
\* outer loop `for practice_area, keywords in PRACTICE_AREA_MAPPINGS.items()`
ScanAreas(name_lower, i) ==
    IF i > Len(PracticeAreas) THEN "Commercial"
    ELSE IF ScanKeywords(name_lower, PRACTICE_AREA_MAPPINGS[PracticeAreas[i]], 1)
         THEN PracticeAreas[i]
    ELSE ScanAreas(name_lower, i + 1)

classify_by_filename(filename) == ScanAreas(StrLower(filename), 1)

(***************************************************************************)
(* Inputs of the classification check: file names assembled from word      *)
(* fragments as they occur in contract file names.                         *)
(***************************************************************************)
MaxFragments == 2

Fragments ==
    {"MERGER", "License", "Supply", "Joint Venture", "Loan", "_", " Agreement",
     "ma", "NDA", "Employment", "Purchase", "Stock ", "Lease", "te"}

RECURSIVE FragmentStrings(_)
FragmentStrings(n) ==
    IF n = 0 THEN {""}
    ELSE LET shorter == FragmentStrings(n - 1)
         IN  shorter \cup {s \o f : s \in shorter, f \in Fragments}

ClassifyInputs == {s \o ".pdf" : s \in FragmentStrings(MaxFragments)}

(***************************************************************************)
(* download_cuad_contracts.py: find_files, save_matter and main            *)
(***************************************************************************)
TARGET_MATTERS_PER_AREA == 3

DOCS_PER_MATTER == 15

\* `matter_counts[practice_area] >= TARGET_MATTERS_PER_AREA` (main, the quota test)
AreaAtTarget_Early(counts, practice_area) ==
    counts[practice_area] >= TARGET_MATTERS_PER_AREA - 1

AreaAtTarget_Never(counts, practice_area) == FALSE

AreaAtTarget(counts, practice_area) ==
    counts[practice_area] >= TARGET_MATTERS_PER_AREA

\* `len(matter_docs[practice_area][current_matter]) >= DOCS_PER_MATTER`
MatterComplete_Late(docs) == Len(docs) > DOCS_PER_MATTER

MatterComplete_Early(docs) == Len(docs) >= DOCS_PER_MATTER - 1

MatterComplete(docs) == Len(docs) >= DOCS_PER_MATTER

\* `matter_docs[practice_area][current_matter].append(pdf_path)`
AppendDoc_Twice(docs, pdf_path) == Append(Append(docs, pdf_path), pdf_path)

AppendDoc_Front(docs, pdf_path) == <<pdf_path>> \o docs

AppendDoc(docs, pdf_path) == Append(docs, pdf_path)

\* `if docs and matter_num > matter_counts[practice_area]` (final flush)
FlushNeeded_Again(docs, matter_num, count) == docs # <<>> /\ matter_num >= count

FlushNeeded(docs, matter_num, count) == docs # <<>> /\ matter_num > count

\* find_files: the paths whose lower-cased extension is in `extensions`, sorted
find_files(walk, extensions) ==
    LET Wanted(p) == StrLower(splitext(basename(p))[2]) \in extensions
    IN  sorted(SelectSeq(walk, Wanted))

\* a function extended or overwritten at one key (dict assignment, file write)
Put(f, k, v) == [x \in (DOMAIN f) \cup {k} |-> IF x = k THEN v ELSE f[x]]

RECURSIVE SaveDocs(_, _, _, _)
\* the loop `for i, src_path in enumerate(doc_paths)` of save_matter, from the
\* 1-based position n on; st = [fs |-> output files, clob |-> overwritten paths]
SaveDocs(st, folder_name, doc_paths, n) ==
    IF n > Len(doc_paths) THEN st
    ELSE LET src_path == doc_paths[n]
             i        == n - 1
             filename == basename(src_path)
             dest0    == folder_name \o "/" \o filename
             parts    == splitext(filename)
             dest     == IF dest0 \in DOMAIN st.fs
                         THEN folder_name \o "/" \o parts[1] \o "_" \o NatToStr(i) \o parts[2]
                         ELSE dest0
         IN  SaveDocs([fs   |-> Put(st.fs, dest, src_path),
                       clob |-> IF dest \in DOMAIN st.fs THEN st.clob \cup {dest}
                                ELSE st.clob],
                      folder_name, doc_paths, n + 1)

save_matter(st, practice_area, matter_num, doc_paths) ==
    SaveDocs(st, practice_area \o "_" \o NatToStr(matter_num), doc_paths, 1)

\* the keys of a dict with integer keys, in insertion (here ascending) order
KeysInOrder(d) ==
    LET D == DOMAIN d
    IN  [i \in 1..Cardinality(D) |->
           CHOOSE k \in D : Cardinality({x \in D : x < k}) = i - 1]

RECURSIVE FlushMatters(_, _, _, _)
\* inner loop of the final flush for one practice area; fl = [counts, st, saves]
FlushMatters(fl, practice_area, keys, j) ==
    IF j > Len(keys) THEN fl
    ELSE LET matter_num == keys[j]
             docs       == matter_docs[practice_area][matter_num]
         IN  IF FlushNeeded(docs, matter_num, fl.counts[practice_area])
             THEN FlushMatters(
                    [counts |-> [fl.counts EXCEPT ![practice_area] = matter_num],
                     st     |-> save_matter(fl.st, practice_area, matter_num, docs),
                     saves  |-> Append(fl.saves, [area |-> practice_area,
                                                  num |-> matter_num, docs |-> docs])],
                    practice_area, keys, j + 1)
             ELSE FlushMatters(fl, practice_area, keys, j + 1)

RECURSIVE FlushAreas(_, _)
\* outer loop of the final flush, `for practice_area in matter_docs`
FlushAreas(fl, i) ==
    IF i > Len(PracticeAreas) THEN fl
    ELSE FlushAreas(FlushMatters(fl, PracticeAreas[i],
                                 KeysInOrder(matter_docs[PracticeAreas[i]]), 1),
                    i + 1)

(***************************************************************************)
(* Inputs of the CUAD run: the extracted tree.  Small trees vary names,    *)
(* directories and extensions; bulk trees hold enough files of one         *)
(* practice area to fill matters and to reach the per-area target; the     *)
(* full trees fill every practice area.                                    *)
(***************************************************************************)
MaxSmall == 3

MaxTail == 1

MaxRuns == 2

SmallPaths ==
    {"p1/a.pdf", "p2/a_2.pdf", "p3/a.pdf", "p4/Loan.pdf", "p5/License.PDF",
     "p6/notes.txt"}

SmallTrees == {SetToSeq(T) : T \in {U \in SUBSET SmallPaths : Cardinality(U) <= MaxSmall}}

TailTrees == {SetToSeq(T) : T \in {U \in SUBSET SmallPaths : Cardinality(U) <= MaxTail}}

\* zero-padded directory names keep string order equal to numeric order
Pad3(n) ==
    (IF n < 10 THEN "00" ELSE IF n < 100 THEN "0" ELSE "") \o NatToStr(n)

BulkNames == {"a.pdf", "Loan.pdf"}

BulkCounts ==
    {DOCS_PER_MATTER - 1, DOCS_PER_MATTER, DOCS_PER_MATTER + 1,
     TARGET_MATTERS_PER_AREA * DOCS_PER_MATTER,
     TARGET_MATTERS_PER_AREA * DOCS_PER_MATTER + 1}

\* the walk lists the tail first, so that sorting has to move it
BulkTrees ==
    {T \o [n \in 1..count |-> "b" \o Pad3(n) \o "/" \o name] :
        name \in BulkNames, count \in BulkCounts, T \in TailTrees}

\* one file name per practice area, in declaration order
AreaNames ==
    <<"Merger.pdf", "Joint Venture.pdf", "License.pdf", "Supply.pdf",
      "Employment.pdf", "Loan.pdf">>

FullTrees ==
    {T \o [n \in 1..(Len(AreaNames) * TARGET_MATTERS_PER_AREA * DOCS_PER_MATTER) |->
             "b" \o Pad3(n) \o "/" \o AreaNames[((n - 1) % Len(AreaNames)) + 1]] :
        T \in {<<>>, <<"p1/a.pdf">>, <<"p6/notes.txt">>,
                <<"a000/Merger.pdf", "p1/a.pdf">>}}

CuadTrees == SmallTrees \cup BulkTrees \cup FullTrees

(***************************************************************************)
(* download_fund_sec_filings.py and download_fund_sec_expanded.py          *)
(***************************************************************************)
\* a file of a downloaded filing: the content is `text` followed by filler
\* without keywords up to `size` characters; `readable` is FALSE when opening
\* or reading the file raises
DiskFile(ticker, ftype, acc, name, text, size, readable) ==
    [ticker |-> ticker, ftype |-> ftype, acc |-> acc, name |-> name,
     text |-> text, size |-> size, readable |-> readable]

\* `f.read(limit).lower()`: the text searched and len(content)
ReadLower(f, limit) ==
    [text |-> StrLower(f.text), len |-> IF f.size < limit THEN f.size ELSE limit]

\* str.endswith
EndsWith(s, suffix) ==
    Len(s) >= Len(suffix) /\ SubSeq(s, Len(s) - Len(suffix) + 1, Len(s)) = suffix

RECURSIVE ReplaceRange(_, _, _, _, _)
\* the characters lo..hi of s with every c replaced by t
ReplaceRange(s, c, t, lo, hi) ==
    IF lo > hi THEN ""
    ELSE IF lo = hi THEN (IF CharAt(s, lo) = c THEN t ELSE CharAt(s, lo))
    ELSE ReplaceRange(s, c, t, lo, (lo + hi) \div 2)
         \o ReplaceRange(s, c, t, (lo + hi) \div 2 + 1, hi)

\* str.replace(c, t) for a single character c
ReplaceChar(s, c, t) == ReplaceRange(s, c, t, 1, Len(s))

RECURSIVE CleanName(_)
\* re.sub(r'[<>:"/\\|?*]', '_', out_name)
CleanName(s) ==
    IF Len(s) = 0 THEN s
    ELSE (IF CharAt(s, 1) \in {"<", ">", ":", "\"", "/", "\\", "|", "?", "*"}
          THEN "_" ELSE CharAt(s, 1))
         \o CleanName(SubSeq(s, 2, Len(s)))

\* `keywords` of find_fund_docs_in_filing in download_fund_sec_filings.py
FilingsDocTypes == <<"side_letter", "lpa", "subscription", "ppm", "investment_mgmt">>

FilingsKeywords ==
    [t \in {FilingsDocTypes[i] : i \in 1..Len(FilingsDocTypes)} |->
       CASE t = "side_letter" -> <<"side letter", "side-letter", "sideletter">>
         [] t = "lpa" -> <<"limited partnership agreement", "lp agreement",
                           "partnership agreement">>
         [] t = "subscription" -> <<"subscription agreement", "subscription document">>
         [] t = "ppm" -> <<"private placement", "offering memorandum",
                           "confidential memorandum">>
         [] t = "investment_mgmt" -> <<"investment management agreement",
                                       "advisory agreement">>]

\* FUND_DOC_KEYWORDS of download_fund_sec_expanded.py
ExpandedDocTypes ==
    <<"side_letter", "lpa", "subscription", "investment_mgmt", "fund_admin", "ppm">>

FUND_DOC_KEYWORDS ==
    [t \in {ExpandedDocTypes[i] : i \in 1..Len(ExpandedDocTypes)} |->
       CASE t = "side_letter" ->
              <<"side letter", "side-letter", "sideletter", "letter agreement",
                "investor letter", "supplemental agreement", "letter of understanding",
                "preferential terms", "mfn", "most favored nation">>
         [] t = "lpa" ->
              <<"limited partnership agreement", "lp agreement", "partnership agreement",
                "agreement of limited partnership",
                "amended and restated limited partnership", "llc agreement",
                "operating agreement of", "limited liability company agreement">>
         [] t = "subscription" ->
              <<"subscription agreement", "subscription document",
                "investor subscription", "capital commitment agreement",
                "commitment agreement", "joinder agreement">>
         [] t = "investment_mgmt" ->
              <<"investment management agreement", "investment advisory agreement",
                "advisory agreement", "management agreement", "sub-advisory agreement",
                "portfolio management">>
         [] t = "fund_admin" ->
              <<"administration agreement", "fund administration",
                "custodian agreement", "custody agreement",
                "prime brokerage agreement", "transfer agent">>
         [] t = "ppm" ->
              <<"private placement memorandum", "confidential memorandum",
                "offering memorandum", "private offering", "confidential offering",
                "information memorandum">>]

\* `for kw in kw_list: if kw in content` (download_fund_sec_filings.py)
FilingsTypeMatches(content, doc_type) ==
    \E j \in 1..Len(FilingsKeywords[doc_type]) :
        StrContains(content.text, FilingsKeywords[doc_type][j])

RECURSIVE FilingsFileEntries(_, _, _)
\* `for doc_type, kw_list in keywords.items()`: one entry per matching doc_type
FilingsFileEntries(f, content, i) ==
    IF i > Len(FilingsDocTypes) THEN <<>>
    ELSE (IF FilingsTypeMatches(content, FilingsDocTypes[i])
          THEN <<[file |-> f, doc_type |-> FilingsDocTypes[i], filename |-> f.name]>>
          ELSE <<>>)
         \o FilingsFileEntries(f, content, i + 1)

\* `except Exception: continue`: the scan goes on with the remaining files
AfterUnreadable_Stop(rest) == <<>>

AfterUnreadable(rest) == rest

RECURSIVE find_fund_docs_filings(_, _)
\* find_fund_docs_in_filing of download_fund_sec_filings.py over the files of
\* one filing, from position n on
find_fund_docs_filings(files, n) ==
    IF n > Len(files) THEN <<>>
    ELSE LET f == files[n]
             isDoc == \E ext \in {".htm", ".html", ".txt"} : EndsWith(f.name, ext)
         IN  IF isDoc /\ ~f.readable
             THEN AfterUnreadable(find_fund_docs_filings(files, n + 1))
             ELSE (IF isDoc THEN FilingsFileEntries(f, ReadLower(f, 50000), 1) ELSE <<>>)
                  \o find_fund_docs_filings(files, n + 1)

\* `kw in content or kw.replace(' ', '') in filename_lower or
\*  kw.replace(' ', '-') in filename_lower`
ExpandedKeywordHit(content, filename_lower, kw) ==
    \/ StrContains(content.text, kw)
    \/ StrContains(filename_lower, ReplaceChar(kw, " ", ""))
    \/ StrContains(filename_lower, ReplaceChar(kw, " ", "-"))

\* `if len(content) > 5000`
Substantial_Always(content) == TRUE

Substantial(content) == content.len > 5000

RECURSIVE ExpandedFileEntries_AllTypes(_, _, _)
ExpandedFileEntries_AllTypes(f, content, i) ==
    IF i > Len(ExpandedDocTypes) THEN <<>>
    ELSE (IF /\ \E j \in 1..Len(FUND_DOC_KEYWORDS[ExpandedDocTypes[i]]) :
                   ExpandedKeywordHit(content, StrLower(f.name),
                                      FUND_DOC_KEYWORDS[ExpandedDocTypes[i]][j])
             /\ Substantial(content)
          THEN <<[file |-> f, doc_type |-> ExpandedDocTypes[i], filename |-> f.name]>>
          ELSE <<>>)
         \o ExpandedFileEntries_AllTypes(f, content, i + 1)

RECURSIVE ExpandedFileEntries(_, _, _)
\* the doc_type loop of download_fund_sec_expanded.py: the first doc_type with
\* a keyword hit decides; it yields an entry only for a substantial document
ExpandedFileEntries(f, content, i) ==
    IF i > Len(ExpandedDocTypes) THEN <<>>
    ELSE IF LET filename_lower == StrLower(f.name)
            IN  \E j \in 1..Len(FUND_DOC_KEYWORDS[ExpandedDocTypes[i]]) :
                   ExpandedKeywordHit(content, filename_lower,
                                      FUND_DOC_KEYWORDS[ExpandedDocTypes[i]][j])
         THEN IF Substantial(content)
              THEN <<[file |-> f, doc_type |-> ExpandedDocTypes[i], filename |-> f.name]>>
              ELSE <<>>
    ELSE ExpandedFileEntries(f, content, i + 1)

RECURSIVE find_fund_docs_expanded(_, _)
\* find_fund_docs_in_filing of download_fund_sec_expanded.py
find_fund_docs_expanded(files, n) ==
    IF n > Len(files) THEN <<>>
    ELSE LET f == files[n]
             isDoc == \E ext \in {".htm", ".html", ".txt", ".xml"} :
                         EndsWith(StrLower(f.name), ext)
             isIndex == StrContains(StrLower(f.name), "index") \/ CharAt(f.name, 1) = "."
         IN  IF isDoc /\ ~isIndex /\ ~f.readable
             THEN AfterUnreadable(find_fund_docs_expanded(files, n + 1))
             ELSE (IF isDoc /\ ~isIndex
                   THEN ExpandedFileEntries(f, ReadLower(f, 100000), 1)
                   ELSE <<>>)
                  \o find_fund_docs_expanded(files, n + 1)

\* the if/elif chain of download_and_extract_fund_docs; "" stands for `continue`
FilingsOutFolder_Ppm(doc_type) ==
    CASE doc_type = "side_letter" -> "Side_Letters"
      [] doc_type = "lpa" -> "LPAs"
      [] doc_type = "subscription" -> "Subscription_Agreements"
      [] doc_type = "investment_mgmt" -> "Investment_Mgmt_Agreements"
      [] doc_type = "ppm" -> "Private_Placement_Memos"
      [] OTHER -> ""

FilingsOutFolder(doc_type) ==
    CASE doc_type = "side_letter" -> "Side_Letters"
      [] doc_type = "lpa" -> "LPAs"
      [] doc_type = "subscription" -> "Subscription_Agreements"
      [] doc_type = "investment_mgmt" -> "Investment_Mgmt_Agreements"
      [] OTHER -> ""

get_output_folder(doc_type) ==
    CASE doc_type = "side_letter" -> "Side_Letters"
      [] doc_type = "lpa" -> "LPAs"
      [] doc_type = "subscription" -> "Subscription_Agreements"
      [] doc_type = "investment_mgmt" -> "Investment_Mgmt_Agreements"
      [] doc_type = "fund_admin" -> "Fund_Admin_Agreements"
      [] doc_type = "ppm" -> "Private_Placement_Memos_SEC"
      [] OTHER -> "Other_Fund_Docs"

\* out_path relative to OUTPUT_PATH; "" when the entry is skipped
OutPath(script, ticker, filing_type, accession, e) ==
    LET acc10 == SubSeq(accession, 1, IF Len(accession) < 10 THEN Len(accession) ELSE 10)
    IN  IF script = "filings"
        THEN IF FilingsOutFolder(e.doc_type) = "" THEN ""
             ELSE FilingsOutFolder(e.doc_type) \o "/" \o ticker \o "_" \o acc10
                  \o "_" \o e.filename
        ELSE get_output_folder(e.doc_type) \o "/"
             \o CleanName(ticker \o "_" \o filing_type \o "_" \o acc10 \o "_" \o e.filename)

\* `if not os.path.exists(out_path)`
SkipExisting_Never(out, out_path) == FALSE

SkipExisting(out, out_path) == out_path \in DOMAIN out

RECURSIVE CopyEntries(_, _, _, _, _, _, _)
\* `for filepath, doc_type, filename in fund_docs`, from position n on;
\* st = [out, total, clob]
CopyEntries(st, script, ticker, filing_type, accession, fund_docs, n) ==
    IF n > Len(fund_docs) THEN st
    ELSE LET e        == fund_docs[n]
             out_path == OutPath(script, ticker, filing_type, accession, e)
             next     ==
                 IF out_path = "" \/ SkipExisting(st.out, out_path) THEN st
                 ELSE [out   |-> Put(st.out, out_path, e.file),
                       total |-> [st.total EXCEPT ![e.doc_type] = @ + 1],
                       clob  |-> IF out_path \in DOMAIN st.out
                                 THEN st.clob \cup {out_path} ELSE st.clob]
         IN  CopyEntries(next, script, ticker, filing_type, accession, fund_docs, n + 1)

RECURSIVE CopyFilings(_, _, _, _, _, _)
\* `for accession in os.listdir(ticker_path)`, in the listing order `accessions`
CopyFilings(st, script, ticker, filing_type, accessions, j) ==
    IF j > Len(accessions) THEN st
    ELSE LET accession == accessions[j]
             files == SetToSeq({f \in s_disk : /\ f.ticker = ticker
                                               /\ f.ftype = filing_type
                                               /\ f.acc = accession})
             fund_docs == IF script = "filings" THEN find_fund_docs_filings(files, 1)
                          ELSE find_fund_docs_expanded(files, 1)
         IN  CopyFilings(CopyEntries(st, script, ticker, filing_type, accession,
                                     fund_docs, 1),
                         script, ticker, filing_type, accessions, j + 1)

\* the tickers and filing types the model iterates over: two tickers of
\* INVESTMENT_COMPANIES and the first two FILING_TYPES of both scripts
SecTickers == <<"ARCC", "MAIN">>

SecFilingTypes == <<"8-K", "10-K">>

\* the (ticker, filing_type) pairs in loop order
\* the accession directories listed for a pair: none when dl.get raised, the
\* except branch goes on to the next filing type
ExaminedAccessions_DespiteRaise(disk, ticker, filing_type, raised) ==
    {f.acc : f \in {g \in disk : g.ticker = ticker /\ g.ftype = filing_type}}

ExaminedAccessions(disk, ticker, filing_type, raised) ==
    IF raised THEN {}
    ELSE {f.acc : f \in {g \in disk : g.ticker = ticker /\ g.ftype = filing_type}}

\* download_fund_sec_expanded.py sleeps after the last filing type of a
\* ticker, download_fund_sec_filings.py does not sleep
SleepsAfterPair(script, pairs, pos) ==
    /\ script = "expanded"
    /\ pos = Len(pairs) \/ pairs[pos + 1][1] # pairs[pos][1]

SecPairs ==
    [n \in 1..(Len(SecTickers) * Len(SecFilingTypes)) |->
       <<SecTickers[((n - 1) \div Len(SecFilingTypes)) + 1],
         SecFilingTypes[((n - 1) % Len(SecFilingTypes)) + 1]>>]

\* total_found as initialised by the script
InitialTotalFound(script) ==
    IF script = "filings"
    THEN [t \in {FilingsDocTypes[i] : i \in 1..Len(FilingsDocTypes)} |-> 0]
    ELSE [t \in {ExpandedDocTypes[i] : i \in 1..Len(ExpandedDocTypes)} |-> 0]

(***************************************************************************)
(* Inputs of the SEC extraction: the downloaded filings                    *)
(***************************************************************************)
MaxDiskFiles == 3

MaxSecRuns == 2

MaxDlFailures == 1

DiskUniverse ==
    {DiskFile("ARCC", "8-K", "0001193125-22-000001", "ex10-1.htm",
              "Side Letter to LP Agreement", 6000, TRUE),
     DiskFile("ARCC", "8-K", "0001193125-22-000002", "ex10-1.htm",
              "SIDE LETTER", 8000, TRUE),
     DiskFile("ARCC", "10-K", "0001193125-23-000003", "lpa.txt",
              "LP Agreement", 3000, TRUE),
     DiskFile("MAIN", "8-K", "0000950170-23-000004", "ppm.htm",
              "Offering Memorandum", 120000, TRUE),
     DiskFile("MAIN", "8-K", "0000950170-23-000004", "index.html",
              "subscription agreement", 6000, TRUE),
     DiskFile("MAIN", "10-K", "0000950170-24-000005", "ex99.htm",
              "advisory agreement", 7000, FALSE)}

SecDisks == {D \in SUBSET DiskUniverse : Cardinality(D) <= MaxDiskFiles}

\* the orders in which os.listdir may list the elements of S
ListingOrders(S) ==
    {o \in [1..Cardinality(S) -> S] : \A i, j \in 1..Cardinality(S) : i # j => o[i] # o[j]}

(***************************************************************************)
(* download_sec_side_letters.py: search, dedupe by URL, download           *)
(***************************************************************************)
\* the search_and_download_* functions
UrlFunctions == {"side_letters", "lpas", "subscription"}

\* number of entries of `queries`
QueryCount(fn) == IF fn = "subscription" THEN 2 ELSE 3

\* the slice `unique_results[:20]` (`[:15]` for subscription documents)
TopResults(fn) == IF fn = "subscription" THEN 15 ELSE 20

\* `if r['url'] not in seen_urls`
UrlSeen_Never(seen_urls, url) == FALSE

UrlSeen(seen_urls, url) == url \in seen_urls

RECURSIVE Deduplicate(_, _, _, _)
\* the loop `for r in all_results`, from position n on
Deduplicate(all_results, seen_urls, unique_results, n) ==
    IF n > Len(all_results) THEN unique_results
    ELSE LET r == all_results[n]
         IN  IF ~UrlSeen(seen_urls, r.url)
             THEN Deduplicate(all_results, seen_urls \cup {r.url},
                              Append(unique_results, r), n + 1)
             ELSE Deduplicate(all_results, seen_urls, unique_results, n + 1)

(***************************************************************************)
(* Inputs of the search: what search_edgar_fulltext returns for a query    *)
(***************************************************************************)
MaxHits == 1

MaxFailedDownloads == 1

Hit(url, company, form) == [url |-> url, company |-> company, form |-> form]

HitUniverse ==
    {Hit("https://www.sec.gov/Archives/a.htm", "Ares Capital Corp", "8-K"),
     Hit("https://www.sec.gov/Archives/a.htm", "ARES CAPITAL CORP", "10-K"),
     Hit("https://www.sec.gov/Archives/b.htm", "Main Street Capital", "S-1")}

RECURSIVE HitLists(_)
HitLists(n) ==
    IF n = 0 THEN {<<>>}
    ELSE LET shorter == HitLists(n - 1)
         IN  shorter \cup {Append(l, h) : l \in shorter, h \in HitUniverse}

\* more distinct URLs than the download loop takes
BulkHits ==
    [i \in 1..21 |-> Hit("https://www.sec.gov/Archives/x" \o NatToStr(i) \o ".htm",
                         "Golub Capital BDC", "8-K")]

\* the result lists a query may return; only the first query returns the bulk list
QueryResults(query) ==
    IF query = 1 THEN HitLists(MaxHits) \cup {BulkHits} ELSE HitLists(MaxHits)

(***************************************************************************)
(* download_fund_formation.py: download_file                               *)
(***************************************************************************)
max_retries == 3

\* `time.sleep(2)` between attempts
RetryDelay_Backoff(attempt) == 2 * (attempt + 1)

RetryDelay(attempt) == 2

\* `if attempt < max_retries - 1`
RetryAgain(attempt) == attempt < max_retries - 1

\* `url.replace(' ', '%20')`
EncodeSpaces(url) == ReplaceChar(url, " ", "%20")

\* what one pass of the try block can do: "ok" the download completes;
\* "http_error" requests.get or raise_for_status raises; "stream_error"
\* iter_content raises after dest_path was opened; "os_error" open or write
\* raises an exception that is not a RequestException
AttemptOutcomes == {"ok", "http_error", "stream_error", "os_error"}

\* URLs of UVA_DOCUMENTS, SEC_EDGAR_DOCUMENTS and ILPA_DOCUMENTS, with no, one
\* and two spaces
DownloadUrls ==
    {"https://legaldatalab.law.virginia.edu/hedge_funds/pdf/oa/Amaranth_2003.pdf",
     "https://legaldatalab.law.virginia.edu/hedge_funds/pdf/ppm/Lancer Offshore.pdf",
     "https://legaldatalab.law.virginia.edu/hedge_funds/pdf/ppm/Lancer Offshore Fund.pdf",
     "https://www.sec.gov/Archives/edgar/data/1880661/000119312522057998/d278498dex103.htm",
     "https://ilpa.org/wp-content/uploads/2023/09/ILPA-Model-LPA-Deal-by-Deal-Word.docx"}

(***************************************************************************)
(* download_fund_formation.py: download_uva_documents,                     *)
(* download_sec_documents, download_ilpa_documents                         *)
(***************************************************************************)
FormationFunctions == {"uva", "sec", "ilpa"}

UVA_BASE_URL == "https://legaldatalab.law.virginia.edu/hedge_funds/pdf"

Doc(doc_type, name, path) == [doc_type |-> doc_type, name |-> name, path |-> path]

\* documents of UVA_DOCUMENTS, in the order the nested loops reach them
UVA_DOCUMENTS ==
    <<Doc("Operating_Agreements", "Amaranth_Partners", "oa/Amaranth_2003.pdf"),
      Doc("Operating_Agreements", "Lancer_Offshore", "oa/Lancer_Offshore.pdf"),
      Doc("Private_Placement_Memos", "Lancer_Offshore_2002", "ppm/Lancer Offshore.pdf"),
      Doc("Private_Placement_Memos", "Lancer_Partners_2001", "ppm/Lancer_Partners.pdf")>>

\* the documents of SEC_EDGAR_DOCUMENTS; Subscription_Agreements is empty
SEC_EDGAR_DOCUMENTS ==
    <<Doc("Side_Letters", "Side_Letter_Example_1",
          "https://www.sec.gov/Archives/edgar/data/1096934/000072174816001857/site1229168kex10_2.htm"),
      Doc("Side_Letters", "Side_Letter_TPG",
          "https://www.sec.gov/Archives/edgar/data/1880661/000119312522057998/d278498dex103.htm"),
      Doc("LPAs", "LPA_Master_Fund_Example",
          "https://www.sec.gov/Archives/edgar/data/1597218/000119312514060638/d667770dex99a1.htm"),
      Doc("LPAs", "LPA_Fund_Example_2",
          "https://www.sec.gov/Archives/edgar/data/1597220/000119312514060680/d667850dex99a1.htm")>>

\* the documents of ILPA_DOCUMENTS
ILPA_DOCUMENTS ==
    <<Doc("Model_LPAs", "ILPA_Model_LPA_Whole_of_Fund",
          "https://ilpa.org/wp-content/uploads/2023/09/ILPA-Model-LPA-Whole-of-Fund-Word.docx"),
      Doc("Model_LPAs", "ILPA_Model_LPA_Deal_by_Deal",
          "https://ilpa.org/wp-content/uploads/2023/09/ILPA-Model-LPA-Deal-by-Deal-Word.docx")>>

\* the number of configured documents a run goes through
MaxDocs == 3

Prefix(seq, n) == SubSeq(seq, 1, IF Len(seq) < n THEN Len(seq) ELSE n)

ConfiguredDocs(fn) ==
    Prefix(CASE fn = "uva" -> UVA_DOCUMENTS
             [] fn = "sec" -> SEC_EDGAR_DOCUMENTS
             [] OTHER      -> ILPA_DOCUMENTS, MaxDocs)

\* the URL handed to download_file
DocUrl(fn, doc) == IF fn = "uva" THEN UVA_BASE_URL \o "/" \o doc.path ELSE doc.path

\* the extension of the destination file
DocExt(fn, doc) ==
    IF fn = "sec"
    THEN (IF EndsWith(doc.path, ".htm") \/ EndsWith(doc.path, ".html") THEN ".html"
          ELSE IF EndsWith(doc.path, ".pdf") THEN ".pdf"
          ELSE ".html")
    ELSE splitext(doc.path)[2]

\* dest_file
DestFile(fn, doc) == doc.doc_type \o "/" \o doc.name \o DocExt(fn, doc)

\* `if download_file(url, dest_file, name)`
CountsAsDownloaded_Always(result) == TRUE

CountsAsDownloaded(result) == result = "True"

(***************************************************************************)
(* download_cuad_contracts.py: download_cuad_zip and extract_cuad_zip      *)
(***************************************************************************)
CUAD_SOURCES ==
    <<"https://github.com/TheAtticusProject/cuad/releases/download/v1/CUAD_v1.zip",
      "https://zenodo.org/records/4595826/files/CUAD_v1.zip?download=1">>

\* a file: whether it exists, its size in bytes, and whether one download wrote
\* all of it
ZipFile(exists, size, complete) == [exists |-> exists, size |-> size, complete |-> complete]

NoZip == ZipFile(FALSE, 0, FALSE)

\* `os.path.exists(zip_path) and os.path.getsize(zip_path) > 1000000`
AlreadyDownloaded(zip) == zip.exists /\ zip.size > 1000000

\* the size of the whole archive and the sizes a broken download can leave
FullZipSize == 200000000

PartialZipSizes == {8192, 1000000, 1000001}

\* what contacting one source can do: "ok" the archive is written in full;
\* "http_error" requests.get or raise_for_status raises; "stream_error"
\* iter_content raises after zip_path was opened; "os_error" open or write
\* raises an exception that is not a RequestException
SourceOutcomes == {"ok", "http_error", "stream_error", "os_error"}

\* the runs of the script over one TEMP_PATH
MaxZipRuns == 3

(***************************************************************************)
(* Inputs of find_fund_docs_in_filing: the files of one filing directory   *)
(***************************************************************************)
FilingFile(name, text, size, readable) ==
    DiskFile("ARCC", "8-K", "0001193125-22-000001", name, text, size, readable)

FilingFileUniverse ==
    {FilingFile("ex10-1.htm", "Side Letter to LP Agreement", 6000, TRUE),
     FilingFile("ex10-2.htm", "LP Agreement", 3000, TRUE),
     FilingFile("ex99.htm", "subscription agreement", 6000, FALSE),
     FilingFile("index.html", "subscription agreement", 6000, TRUE),
     FilingFile("side-letter.HTM", "Exhibit 10", 5001, TRUE),
     FilingFile("notes.pdf", "side letter", 6000, TRUE),
     FilingFile(".hidden.txt", "advisory agreement", 6000, TRUE),
     FilingFile("ex10-3.txt", "Custodian Agreement and Offering Memorandum", 5000, TRUE),
     FilingFile("ex10-4.xml", "management agreement for private offering", 120000, TRUE),
     FilingFile("press.htm", "quarterly results", 6000, TRUE)}

MaxFilingFiles == 2

RECURSIVE DistinctSeqs(_, _)
\* the sequences of at most n distinct elements of S
DistinctSeqs(S, n) ==
    IF n = 0 THEN {<<>>}
    ELSE LET shorter == DistinctSeqs(S, n - 1)
             longer  == {Append(q, x) : q \in shorter, x \in S}
         IN  shorter \cup {q \in longer : \A i, j \in DOMAIN q : i # j => q[i] # q[j]}

(***************************************************************************)
(* Initial values of the variables a specification does not use            *)
(***************************************************************************)
FindIdle ==
    /\ g_script = ""
    /\ g_files = <<>>
    /\ g_pc = "idle"
    /\ g_result = <<>>

ZipIdle ==
    /\ z_pc = "idle"
    /\ z_run = 0
    /\ z_zip = NoZip
    /\ z_extracted = FALSE
    /\ z_tried = <<>>
    /\ z_abort = ""

FormIdle ==
    /\ f_fn = ""
    /\ f_pc = "idle"
    /\ f_idx = 0
    /\ f_fs = <<>>
    /\ f_total = 0
    /\ f_log = <<>>

UrlIdle ==
    /\ u_fn = ""
    /\ u_pc = "idle"
    /\ u_query = 0
    /\ u_all_results = <<>>
    /\ u_unique = <<>>
    /\ u_pos = 0
    /\ u_downloaded = 0
    /\ u_requested = <<>>
    /\ u_failed = 0

DlIdle ==
    /\ d_url = ""
    /\ d_pc = "idle"
    /\ d_attempt = 0
    /\ d_result = ""
    /\ d_file = "absent"
    /\ d_events = <<>>

SecIdle ==
    /\ s_script = ""
    /\ s_disk = {}
    /\ s_pos = 0
    /\ s_run = 0
    /\ s_out = <<>>
    /\ s_out_prev = <<>>
    /\ s_total_found = <<>>
    /\ s_done = {}
    /\ s_seen = {}
    /\ s_clobbered = {}
    /\ s_failures = 0
    /\ s_last_op = "none"
    /\ s_unpaced = FALSE

ClassifyIdle == c_filename = "" /\ c_result = ""

CuadIdle ==
    /\ tree = <<>>
    /\ pc = "idle"
    /\ run = 0
    /\ pdf_files = <<>>
    /\ processed = 0
    /\ matter_counts = <<>>
    /\ matter_docs = <<>>
    /\ out_fs = <<>>
    /\ out_prev = <<>>
    /\ saves = <<>>
    /\ clobbered = {}

(***************************************************************************)
(* Specification of the classification function                            *)
(***************************************************************************)
InitClassify ==
    /\ mode = "classify"
    /\ c_filename \in ClassifyInputs
    /\ c_result = ""
    /\ CuadIdle
    /\ FormIdle
    /\ ZipIdle
    /\ FindIdle
    /\ SecIdle
    /\ UrlIdle
    /\ DlIdle

ClassifyCall ==
    /\ mode = "classify"
    /\ c_result = ""
    /\ c_result' = classify_by_filename(c_filename)
    /\ UNCHANGED <<mode, c_filename, cuadVars, secVars, urlVars, dlVars, formVars, zipVars, findVars>>

NextClassify == ClassifyCall

SpecClassify == InitClassify /\ [][NextClassify]_vars

(***************************************************************************)
(* Specification of the CUAD run (main), one action per loop iteration     *)
(***************************************************************************)
InitCuad ==
    /\ mode = "cuad"
    /\ ClassifyIdle
    /\ FormIdle
    /\ ZipIdle
    /\ FindIdle
    /\ tree \in CuadTrees
    /\ pc = "main"
    /\ run = 1
    /\ pdf_files = <<>>
    /\ processed = 0
    /\ matter_counts = <<>>
    /\ matter_docs = <<>>
    /\ out_fs = <<>>
    /\ out_prev = <<>>
    /\ saves = <<>>
    /\ clobbered = {}
    /\ SecIdle
    /\ UrlIdle
    /\ DlIdle

\* main up to the loop: find the PDFs, return when there are none
MainStart ==
    /\ mode = "cuad" /\ pc = "main"
    /\ LET files == find_files(tree, {".pdf"})
       IN  /\ pdf_files' = files
           /\ IF files = <<>>
              THEN /\ pc' = "done"
                   /\ UNCHANGED <<matter_counts, matter_docs>>
              ELSE /\ pc' = "loop"
                   /\ matter_counts' = [a \in AreaSet |-> 0]
                   /\ matter_docs' = [a \in AreaSet |-> <<>>]
    /\ processed' = 0
    /\ UNCHANGED <<secVars, urlVars, dlVars, formVars, zipVars, findVars, mode, classifyVars, tree, run, out_fs, out_prev, saves, clobbered>>

\* `all(c >= TARGET_MATTERS_PER_AREA for c in matter_counts.values())`
AllTargetsReached == \A a \in AreaSet : matter_counts[a] >= TARGET_MATTERS_PER_AREA

\* loop iteration that finds every practice area at its target: break
LoopBreak ==
    /\ mode = "cuad" /\ pc = "loop"
    /\ processed < Len(pdf_files)
    /\ AllTargetsReached
    /\ processed' = processed + 1
    /\ pc' = "flush"
    /\ UNCHANGED <<secVars, urlVars, dlVars, formVars, zipVars, findVars, mode, classifyVars, tree, run, pdf_files, matter_counts,
                   matter_docs, out_fs, out_prev, saves, clobbered>>

\* loop iteration whose practice area is at its target: continue
LoopSkip ==
    /\ mode = "cuad" /\ pc = "loop"
    /\ processed < Len(pdf_files)
    /\ ~AllTargetsReached
    /\ LET practice_area == classify_by_filename(basename(pdf_files[processed + 1]))
       IN  AreaAtTarget(matter_counts, practice_area)
    /\ processed' = processed + 1
    /\ UNCHANGED <<secVars, urlVars, dlVars, formVars, zipVars, findVars, mode, classifyVars, tree, pc, run, pdf_files, matter_counts,
                   matter_docs, out_fs, out_prev, saves, clobbered>>

\* loop iteration that adds the PDF to the open matter and saves a full matter
LoopAppend ==
    /\ mode = "cuad" /\ pc = "loop"
    /\ processed < Len(pdf_files)
    /\ ~AllTargetsReached
    /\ LET pdf_path       == pdf_files[processed + 1]
           practice_area  == classify_by_filename(basename(pdf_path))
           current_matter == matter_counts[practice_area] + 1
           before         == IF current_matter \in DOMAIN matter_docs[practice_area]
                             THEN matter_docs[practice_area][current_matter]
                             ELSE <<>>
           docs           == AppendDoc(before, pdf_path)
           st             == save_matter([fs |-> out_fs, clob |-> clobbered],
                                         practice_area, current_matter, docs)
       IN  /\ ~AreaAtTarget(matter_counts, practice_area)
           /\ matter_docs' = [matter_docs EXCEPT
                                ![practice_area] = Put(@, current_matter, docs)]
           /\ IF MatterComplete(docs)
              THEN /\ out_fs' = st.fs
                   /\ clobbered' = st.clob
                   /\ saves' = Append(saves, [area |-> practice_area,
                                              num |-> current_matter, docs |-> docs])
                   /\ matter_counts' = [matter_counts EXCEPT ![practice_area] = @ + 1]
              ELSE UNCHANGED <<out_fs, clobbered, saves, matter_counts>>
    /\ processed' = processed + 1
    /\ UNCHANGED <<secVars, urlVars, dlVars, formVars, zipVars, findVars, mode, classifyVars, tree, pc, run, pdf_files, out_prev>>

\* after the loop: save the remaining partial matters
FinalFlush ==
    /\ mode = "cuad"
    /\ pc = "flush" \/ (pc = "loop" /\ processed = Len(pdf_files))
    /\ LET fl == FlushAreas([counts |-> matter_counts,
                             st     |-> [fs |-> out_fs, clob |-> clobbered],
                             saves  |-> saves], 1)
       IN  /\ matter_counts' = fl.counts
           /\ out_fs' = fl.st.fs
           /\ clobbered' = fl.st.clob
           /\ saves' = fl.saves
    /\ pc' = "done"
    /\ UNCHANGED <<secVars, urlVars, dlVars, formVars, zipVars, findVars, mode, classifyVars, tree, run, pdf_files, processed,
                   matter_docs, out_prev>>

\* the script is started again over the same extracted tree and output tree
Rerun ==
    /\ mode = "cuad" /\ pc = "done"
    /\ run < MaxRuns
    /\ run' = run + 1
    /\ pc' = "main"
    /\ out_prev' = out_fs
    /\ pdf_files' = <<>>
    /\ processed' = 0
    /\ matter_counts' = <<>>
    /\ matter_docs' = <<>>
    /\ saves' = <<>>
    /\ clobbered' = {}
    /\ UNCHANGED <<secVars, urlVars, dlVars, formVars, zipVars, findVars, mode, classifyVars, tree, out_fs>>

NextCuad == MainStart \/ LoopBreak \/ LoopSkip \/ LoopAppend \/ FinalFlush \/ Rerun

SpecCuad == InitCuad /\ [][NextCuad]_vars

(***************************************************************************)
(* Specification of the SEC extraction scripts, one action per            *)
(* (ticker, filing_type) iteration                                         *)
(***************************************************************************)
InitSec ==
    /\ mode = "sec"
    /\ ClassifyIdle
    /\ FormIdle
    /\ ZipIdle
    /\ FindIdle
    /\ CuadIdle
    /\ UrlIdle
    /\ DlIdle
    /\ s_script \in {"filings", "expanded"}
    /\ s_disk \in SecDisks
    /\ s_pos = 1
    /\ s_run = 1
    /\ s_out = <<>>
    /\ s_out_prev = <<>>
    /\ s_total_found = InitialTotalFound(s_script)
    /\ s_done = {}
    /\ s_seen = {}
    /\ s_clobbered = {}
    /\ s_failures = 0
    /\ s_last_op = "none"
    /\ s_unpaced = FALSE

\* one pass of the try block: dl.get, then the filings found on disk are
\* searched and the fund documents copied; when dl.get raises the pair is skipped
SecIteration ==
    /\ mode = "sec"
    /\ s_pos <= Len(SecPairs)
    /\ LET ticker      == SecPairs[s_pos][1]
           filing_type == SecPairs[s_pos][2]
       IN  \E raises \in BOOLEAN :
              /\ IF raises
                 THEN /\ s_failures < MaxDlFailures
                      /\ s_failures' = s_failures + 1
                      /\ UNCHANGED s_done
                 ELSE /\ s_done' = s_done \cup {SecPairs[s_pos]}
                      /\ UNCHANGED s_failures
              /\ \E accessions \in ListingOrders(ExaminedAccessions(s_disk, ticker,
                                                                    filing_type, raises)) :
                    LET st == CopyFilings([out |-> s_out, total |-> s_total_found,
                                           clob |-> s_clobbered],
                                          s_script, ticker, filing_type, accessions, 1)
                    IN  /\ s_out' = st.out
                        /\ s_total_found' = st.total
                        /\ s_clobbered' = st.clob
    /\ s_unpaced' = (s_unpaced \/ s_last_op = "request")
    /\ s_last_op' = IF SleepsAfterPair(s_script, SecPairs, s_pos) THEN "sleep" ELSE "request"
    /\ s_pos' = s_pos + 1
    /\ UNCHANGED <<urlVars, dlVars, formVars, zipVars, findVars, mode, classifyVars, cuadVars,
                   s_script, s_disk, s_run, s_out_prev, s_seen>>

\* the script is started again over the same downloaded filings and output tree
SecRerun ==
    /\ mode = "sec"
    /\ s_pos > Len(SecPairs)
    /\ s_run < MaxSecRuns
    /\ s_run' = s_run + 1
    /\ s_pos' = 1
    /\ s_out_prev' = s_out
    /\ s_total_found' = InitialTotalFound(s_script)
    /\ s_seen' = s_seen \cup s_done
    /\ s_done' = {}
    /\ s_clobbered' = {}
    /\ s_last_op' = "none"
    /\ UNCHANGED <<urlVars, dlVars, formVars, zipVars, findVars, mode, classifyVars, cuadVars,
                   s_script, s_disk, s_out, s_failures, s_unpaced>>

NextSec == SecIteration \/ SecRerun

SpecSec == InitSec /\ [][NextSec]_vars

(***************************************************************************)
(* Specification of search_and_download_side_letters / _lpas /             *)
(* _subscription_docs                                                      *)
(***************************************************************************)
InitUrl ==
    /\ mode = "url"
    /\ ClassifyIdle
    /\ FormIdle
    /\ ZipIdle
    /\ FindIdle
    /\ CuadIdle
    /\ SecIdle
    /\ DlIdle
    /\ u_fn \in UrlFunctions
    /\ u_pc = "search"
    /\ u_query = 0
    /\ u_all_results = <<>>
    /\ u_unique = <<>>
    /\ u_pos = 0
    /\ u_downloaded = 0
    /\ u_requested = <<>>
    /\ u_failed = 0

\* one iteration of `for query in queries`
SearchQuery ==
    /\ mode = "url" /\ u_pc = "search"
    /\ u_query < QueryCount(u_fn)
    /\ \E results \in QueryResults(u_query + 1) :
          u_all_results' = u_all_results \o results
    /\ u_query' = u_query + 1
    /\ UNCHANGED <<mode, classifyVars, cuadVars, secVars, dlVars, formVars, zipVars, findVars, u_fn, u_pc,
                   u_unique, u_pos, u_downloaded, u_requested, u_failed>>

\* the deduplication loop
DedupeResults ==
    /\ mode = "url" /\ u_pc = "search"
    /\ u_query = QueryCount(u_fn)
    /\ u_unique' = Deduplicate(u_all_results, {}, <<>>, 1)
    /\ u_pc' = "download"
    /\ UNCHANGED <<mode, classifyVars, cuadVars, secVars, dlVars, formVars, zipVars, findVars, u_fn, u_query,
                   u_all_results, u_pos, u_downloaded, u_requested, u_failed>>

\* the results the download loop iterates over
TopSlice ==
    SubSeq(u_unique, 1, IF Len(u_unique) < TopResults(u_fn) THEN Len(u_unique)
                        ELSE TopResults(u_fn))

\* one iteration of the download loop: download_with_sec_headers requests the
\* URL once and returns whether it succeeded
DownloadResult ==
    /\ mode = "url" /\ u_pc = "download"
    /\ u_pos < Len(TopSlice)
    /\ u_requested' = Append(u_requested, TopSlice[u_pos + 1].url)
    /\ \E ok \in BOOLEAN :
          IF ok
          THEN u_downloaded' = u_downloaded + 1 /\ UNCHANGED u_failed
          ELSE /\ u_failed < MaxFailedDownloads
               /\ u_failed' = u_failed + 1
               /\ UNCHANGED u_downloaded
    /\ u_pos' = u_pos + 1
    /\ UNCHANGED <<mode, classifyVars, cuadVars, secVars, dlVars, formVars, zipVars, findVars, u_fn, u_pc,
                   u_query, u_all_results, u_unique>>

\* `return downloaded`
DownloadsDone ==
    /\ mode = "url" /\ u_pc = "download"
    /\ u_pos = Len(TopSlice)
    /\ u_pc' = "done"
    /\ UNCHANGED <<mode, classifyVars, cuadVars, secVars, dlVars, formVars, zipVars, findVars, u_fn, u_query,
                   u_all_results, u_unique, u_pos, u_downloaded, u_requested, u_failed>>

NextUrl == SearchQuery \/ DedupeResults \/ DownloadResult \/ DownloadsDone

SpecUrl == InitUrl /\ [][NextUrl]_vars

(***************************************************************************)
(* Specification of download_file, one action per attempt                  *)
(***************************************************************************)
InitDownload ==
    /\ mode = "download"
    /\ ClassifyIdle
    /\ FormIdle
    /\ ZipIdle
    /\ FindIdle
    /\ CuadIdle
    /\ SecIdle
    /\ UrlIdle
    /\ d_url \in DownloadUrls
    /\ d_pc = "try"
    /\ d_attempt = 0
    /\ d_result = ""
    /\ d_file \in {"absent", "old"}
    /\ d_events = <<>>

\* one pass of the loop body `for attempt in range(max_retries)`
Attempt ==
    /\ mode \in {"download", "formation"} /\ d_pc = "try"
    /\ d_attempt < max_retries
    /\ LET attempt == d_attempt
           url     == EncodeSpaces(d_url)
       IN  /\ d_url' = url
           /\ \E outcome \in AttemptOutcomes :
                 CASE outcome = "ok" ->
                        /\ d_file' = "complete"
                        /\ d_events' = Append(d_events, <<"get", url>>)
                        /\ d_result' = "True"
                        /\ d_pc' = "done"
                   [] outcome = "os_error" ->
                        /\ d_file' \in {d_file, "partial"}
                        /\ d_events' = Append(d_events, <<"get", url>>)
                        /\ d_result' = "raised"
                        /\ d_pc' = "done"
                   [] OTHER ->
                        /\ d_file' = IF outcome = "stream_error" THEN "partial" ELSE d_file
                        /\ IF RetryAgain(attempt)
                           THEN /\ d_events' = d_events \o <<<<"get_failed", url>>,
                                                            <<"sleep", RetryDelay(attempt)>>>>
                                /\ d_result' = ""
                                /\ d_pc' = "try"
                           ELSE /\ d_events' = Append(d_events, <<"get_failed", url>>)
                                /\ d_result' = "False"
                                /\ d_pc' = "done"
    /\ d_attempt' = d_attempt + 1
    /\ UNCHANGED <<mode, classifyVars, cuadVars, secVars, urlVars, formVars, zipVars, findVars>>

\* the `return False` after the loop is never reached: the last pass of the loop
\* returns or raises
NextDownload == Attempt

SpecDownload == InitDownload /\ [][NextDownload]_vars /\ WF_vars(NextDownload)

(***************************************************************************)
(* Specification of download_uva_documents / download_sec_documents /      *)
(* download_ilpa_documents, with download_file's attempts as steps         *)
(***************************************************************************)
\* the destination files of the configured documents
DestFiles(fn) == {DestFile(fn, ConfiguredDocs(fn)[i]) : i \in DOMAIN ConfiguredDocs(fn)}

InitFormation ==
    /\ mode = "formation"
    /\ ClassifyIdle
    /\ ZipIdle
    /\ FindIdle
    /\ CuadIdle
    /\ SecIdle
    /\ UrlIdle
    /\ DlIdle
    /\ f_fn \in FormationFunctions
    /\ f_pc = "loop"
    /\ f_idx = 0
    /\ \E existing \in SUBSET DestFiles(f_fn) : f_fs = [p \in existing |-> "old"]
    /\ f_total = 0
    /\ f_log = <<>>

\* `if os.path.exists(dest_file)`: the document is counted and skipped
DocSkip ==
    /\ mode = "formation" /\ f_pc = "loop"
    /\ f_idx < Len(ConfiguredDocs(f_fn))
    /\ DestFile(f_fn, ConfiguredDocs(f_fn)[f_idx + 1]) \in DOMAIN f_fs
    /\ f_total' = f_total + 1
    /\ f_log' = Append(f_log, [doc |-> f_idx + 1, how |-> "skipped"])
    /\ f_idx' = f_idx + 1
    /\ UNCHANGED <<mode, classifyVars, cuadVars, secVars, urlVars, zipVars, findVars, dlVars, f_fn, f_pc, f_fs>>

\* download_file is called for the next document
DocCall ==
    /\ mode = "formation" /\ f_pc = "loop"
    /\ f_idx < Len(ConfiguredDocs(f_fn))
    /\ DestFile(f_fn, ConfiguredDocs(f_fn)[f_idx + 1]) \notin DOMAIN f_fs
    /\ f_pc' = "call"
    /\ d_url' = DocUrl(f_fn, ConfiguredDocs(f_fn)[f_idx + 1])
    /\ d_pc' = "try"
    /\ d_attempt' = 0
    /\ d_result' = ""
    /\ d_file' = "absent"
    /\ d_events' = <<>>
    /\ UNCHANGED <<mode, classifyVars, cuadVars, secVars, urlVars, zipVars, findVars, f_fn, f_idx, f_fs,
                   f_total, f_log>>

\* download_file has returned: the document is counted when the result is
\* true, then the function sleeps and goes to the next document
DocReturn ==
    /\ mode = "formation" /\ f_pc = "call"
    /\ d_pc = "done" /\ d_result \in {"True", "False"}
    /\ LET dest == DestFile(f_fn, ConfiguredDocs(f_fn)[f_idx + 1])
       IN  f_fs' = IF d_file = "absent" THEN f_fs ELSE Put(f_fs, dest, d_file)
    /\ f_total' = IF CountsAsDownloaded(d_result) THEN f_total + 1 ELSE f_total
    /\ f_log' = Append(f_log, [doc |-> f_idx + 1, how |-> d_result])
    /\ f_idx' = f_idx + 1
    /\ f_pc' = "loop"
    /\ d_url' = "" /\ d_pc' = "idle" /\ d_attempt' = 0
    /\ d_result' = "" /\ d_file' = "absent" /\ d_events' = <<>>
    /\ UNCHANGED <<mode, classifyVars, cuadVars, secVars, urlVars, zipVars, findVars, f_fn>>

\* download_file has raised: nothing catches the exception and the run ends
DocRaise ==
    /\ mode = "formation" /\ f_pc = "call"
    /\ d_pc = "done" /\ d_result = "raised"
    /\ LET dest == DestFile(f_fn, ConfiguredDocs(f_fn)[f_idx + 1])
       IN  f_fs' = IF d_file = "absent" THEN f_fs ELSE Put(f_fs, dest, d_file)
    /\ f_log' = Append(f_log, [doc |-> f_idx + 1, how |-> "raised"])
    /\ f_pc' = "aborted"
    /\ d_url' = "" /\ d_pc' = "idle" /\ d_attempt' = 0
    /\ d_result' = "" /\ d_file' = "absent" /\ d_events' = <<>>
    /\ UNCHANGED <<mode, classifyVars, cuadVars, secVars, urlVars, zipVars, findVars, f_fn, f_idx, f_total>>

\* `return total_downloaded`
FormationReturn ==
    /\ mode = "formation" /\ f_pc = "loop"
    /\ f_idx = Len(ConfiguredDocs(f_fn))
    /\ f_pc' = "done"
    /\ UNCHANGED <<mode, classifyVars, cuadVars, secVars, urlVars, zipVars, findVars, dlVars, f_fn, f_idx,
                   f_fs, f_total, f_log>>

NextFormation ==
    DocSkip \/ DocCall \/ Attempt \/ DocReturn \/ DocRaise \/ FormationReturn

SpecFormation == InitFormation /\ [][NextFormation]_vars

(***************************************************************************)
(* Specification of the start of the CUAD main: download_cuad_zip, then    *)
(* extract_cuad_zip; at "organize" main goes on to find_files and the loop *)
(***************************************************************************)
InitZip ==
    /\ mode = "zip"
    /\ ClassifyIdle
    /\ CuadIdle
    /\ SecIdle
    /\ UrlIdle
    /\ DlIdle
    /\ FormIdle
    /\ FindIdle
    /\ z_pc = "start"
    /\ z_run = 1
    /\ z_zip = NoZip
    /\ z_extracted = FALSE
    /\ z_tried = <<>>
    /\ z_abort = ""

ZipUnchanged ==
    UNCHANGED <<mode, classifyVars, cuadVars, secVars, urlVars, dlVars, formVars, findVars>>

\* download_cuad_zip up to the loop: the cached archive is returned
ZipStart ==
    /\ mode = "zip" /\ z_pc = "start"
    /\ z_pc' = IF AlreadyDownloaded(z_zip) THEN "extract" ELSE "sources"
    /\ UNCHANGED <<z_run, z_zip, z_extracted, z_tried, z_abort>>
    /\ ZipUnchanged

\* one iteration of `for url in CUAD_SOURCES`
ZipTry ==
    /\ mode = "zip" /\ z_pc = "sources"
    /\ Len(z_tried) < Len(CUAD_SOURCES)
    /\ \E outcome \in SourceOutcomes :
          /\ z_tried' = Append(z_tried, [src |-> Len(z_tried) + 1, outcome |-> outcome])
          /\ CASE outcome = "ok" ->
                    /\ z_zip' = ZipFile(TRUE, FullZipSize, TRUE)
                    /\ z_pc' = "extract"
                    /\ UNCHANGED z_abort
               [] outcome = "http_error" ->
                    /\ UNCHANGED <<z_zip, z_pc, z_abort>>
               [] outcome = "stream_error" ->
                    /\ \E size \in PartialZipSizes : z_zip' = ZipFile(TRUE, size, FALSE)
                    /\ UNCHANGED <<z_pc, z_abort>>
               [] OTHER ->
                    /\ \/ UNCHANGED z_zip
                       \/ \E size \in PartialZipSizes : z_zip' = ZipFile(TRUE, size, FALSE)
                    /\ z_pc' = "aborted"
                    /\ z_abort' = "exception"
    /\ UNCHANGED <<z_run, z_extracted>>
    /\ ZipUnchanged

\* `raise Exception("Could not download CUAD from any source")`
ZipAllFailed ==
    /\ mode = "zip" /\ z_pc = "sources"
    /\ Len(z_tried) = Len(CUAD_SOURCES)
    /\ z_pc' = "aborted"
    /\ z_abort' = "no_source"
    /\ UNCHANGED <<z_run, z_zip, z_extracted, z_tried>>
    /\ ZipUnchanged

\* extract_cuad_zip: an existing extract_path is returned, a complete archive
\* is extracted, zipfile raises on an archive that is not complete
ZipExtract ==
    /\ mode = "zip" /\ z_pc = "extract"
    /\ IF z_extracted \/ z_zip.complete
       THEN /\ z_extracted' = TRUE
            /\ z_pc' = "organize"
            /\ UNCHANGED z_abort
       ELSE /\ z_pc' = "aborted"
            /\ z_abort' = "exception"
            /\ UNCHANGED z_extracted
    /\ UNCHANGED <<z_run, z_zip, z_tried>>
    /\ ZipUnchanged

\* the script is started again with TEMP_PATH kept
ZipRerun ==
    /\ mode = "zip" /\ z_pc \in {"organize", "aborted"}
    /\ z_run < MaxZipRuns
    /\ z_run' = z_run + 1
    /\ z_pc' = "start"
    /\ z_tried' = <<>>
    /\ z_abort' = ""
    /\ UNCHANGED <<z_zip, z_extracted>>
    /\ ZipUnchanged

NextZip == ZipStart \/ ZipTry \/ ZipAllFailed \/ ZipExtract \/ ZipRerun

SpecZip == InitZip /\ [][NextZip]_vars

(***************************************************************************)
(* Specification of find_fund_docs_in_filing (both scripts)                *)
(***************************************************************************)
InitFind ==
    /\ mode = "find"
    /\ ClassifyIdle
    /\ CuadIdle
    /\ SecIdle
    /\ UrlIdle
    /\ DlIdle
    /\ FormIdle
    /\ ZipIdle
    /\ g_script \in {"filings", "expanded"}
    /\ g_files \in DistinctSeqs(FilingFileUniverse, MaxFilingFiles)
    /\ g_pc = "call"
    /\ g_result = <<>>

FindCall ==
    /\ mode = "find" /\ g_pc = "call"
    /\ g_result' = IF g_script = "filings" THEN find_fund_docs_filings(g_files, 1)
                   ELSE find_fund_docs_expanded(g_files, 1)
    /\ g_pc' = "done"
    /\ UNCHANGED <<mode, classifyVars, cuadVars, secVars, urlVars, dlVars, formVars,
                   zipVars, g_script, g_files>>

NextFind == FindCall

SpecFind == InitFind /\ [][NextFind]_vars

(***************************************************************************)
(* Properties of classify_by_filename                                      *)
(***************************************************************************)
\* positions in PracticeAreas of the areas with a keyword in the lower-cased name
MatchingAreas(filename) ==
    {i \in 1..Len(PracticeAreas) :
        \E j \in 1..Len(PRACTICE_AREA_MAPPINGS[PracticeAreas[i]]) :
            StrContains(StrLower(filename), PRACTICE_AREA_MAPPINGS[PracticeAreas[i]][j])}

FirstMatchingArea(filename) ==
    PracticeAreas[CHOOSE i \in MatchingAreas(filename) :
                     \A j \in MatchingAreas(filename) : i <= j]

\* C1: when some keyword of some practice area occurs in the lower-cased file
\* name, classify_by_filename returns the first practice area, in declaration
\* order, that has such a keyword, whichever later areas match as well.
C1_FirstMatchWins ==
    (mode = "classify" /\ c_result # "" /\ MatchingAreas(c_filename) # {})
        => c_result = FirstMatchingArea(c_filename)

\* a name matched by several areas was classified into the first of them
C1_Witness ==
    /\ mode = "classify" /\ c_result # ""
    /\ Cardinality(MatchingAreas(c_filename)) >= 2
    /\ c_result = FirstMatchingArea(c_filename)
    /\ c_result # "Commercial"

\* C2: a file name in which no keyword occurs is classified "Commercial"; the
\* result is always one of the declared practice areas; the call changes
\* nothing but its result.
C2_DefaultCommercial ==
    /\ [](mode = "classify" /\ c_result # ""
            => /\ c_result \in AreaSet
               /\ MatchingAreas(c_filename) = {} => c_result = "Commercial")
    /\ [][ClassifyCall => UNCHANGED <<mode, c_filename, cuadVars, secVars, urlVars, dlVars, formVars, zipVars, findVars>>]_vars

\* a name without any keyword was classified
C2_Witness ==
    /\ mode = "classify" /\ c_result = "Commercial"
    /\ MatchingAreas(c_filename) = {}
    /\ Len(c_filename) > Len(".pdf")

(***************************************************************************)
(* Properties of the CUAD run                                              *)
(***************************************************************************)
MattersOf(a) == IF a \in DOMAIN matter_docs THEN matter_docs[a] ELSE <<>>

\* the documents of matter k of area a (none when the matter does not exist)
MatterOf(a, k) == IF k \in DOMAIN MattersOf(a) THEN MattersOf(a)[k] ELSE <<>>

RECURSIVE SumLen(_, _)
SumLen(d, keys) ==
    IF keys = {} THEN 0
    ELSE LET k == CHOOSE x \in keys : TRUE
         IN  Len(d[k]) + SumLen(d, keys \ {k})

\* number of documents held in the matters of area a
DocsHeld(a) == SumLen(MattersOf(a), DOMAIN MattersOf(a))

\* the input PDFs that classify_by_filename assigns to area a, in input order
ClassifiedInto(a) ==
    SelectSeq(pdf_files, LAMBDA p : classify_by_filename(basename(p)) = a)

Min2(x, y) == IF x < y THEN x ELSE y

RunEnded == mode = "cuad" /\ pc = "done"

\* C3: no matter of any practice area holds more than DOCS_PER_MATTER
\* documents, in any state of the loop and in any save_matter call.
C3_BucketCapacity ==
    /\ \A a \in DOMAIN matter_docs : \A k \in DOMAIN matter_docs[a] :
          Len(matter_docs[a][k]) <= DOCS_PER_MATTER
    /\ \A i \in 1..Len(saves) : Len(saves[i].docs) <= DOCS_PER_MATTER

\* a matter was filled and the next document of its area went to a new matter
C3_Witness ==
    \E a \in DOMAIN matter_docs :
        /\ Len(MatterOf(a, 1)) = DOCS_PER_MATTER
        /\ Len(MatterOf(a, 2)) >= 1
        /\ \E i \in 1..Len(saves) : saves[i].area = a /\ saves[i].num = 1

CeilDiv(n, c) == (n + c - 1) \div c

\* matter k of area a holds the k-th chunk of the documents d
ChunkAt(a, d, k) ==
    MatterOf(a, k) = SubSeq(d, (k - 1) * DOCS_PER_MATTER + 1,
                            Min2(k * DOCS_PER_MATTER, Len(d)))

IsSorted(s) == \A i \in 1..(Len(s) - 1) : StrLess(s[i], s[i + 1])

SavesOf(a, k) == {i \in 1..Len(saves) : saves[i].area = a /\ saves[i].num = k}

\* C6: every non-empty matter is passed to save_matter exactly once per run: a
\* full matter in the step that fills it, an open non-empty matter by the final
\* flush, and no matter twice.
C6_SavedExactlyOnce ==
    mode = "cuad" =>
        \A a \in DOMAIN matter_docs : \A k \in DOMAIN matter_docs[a] :
            LET docs == matter_docs[a][k]
            IN  /\ Cardinality(SavesOf(a, k)) <= 1
                /\ \A i \in SavesOf(a, k) : saves[i].docs = docs
                /\ Len(docs) >= DOCS_PER_MATTER => Cardinality(SavesOf(a, k)) = 1
                /\ (pc # "done" /\ Len(docs) < DOCS_PER_MATTER) => SavesOf(a, k) = {}
                /\ (pc = "done" /\ docs # <<>>) => Cardinality(SavesOf(a, k)) = 1

\* a run ended in which one matter was saved when full and another by the flush
C6_Witness ==
    /\ RunEnded
    /\ \E i, j \in 1..Len(saves) :
          /\ i < j
          /\ Len(saves[i].docs) = DOCS_PER_MATTER
          /\ Len(saves[j].docs) < DOCS_PER_MATTER
          /\ saves[i].area = saves[j].area

\* C7 as stated: a second run over the same PDFs, with the output of the first
\* run in place, leaves the output tree with the same set of files.
C7_IdempotentRerun ==
    (RunEnded /\ run >= 2) => DOMAIN out_fs = DOMAIN out_prev


(***************************************************************************)
(* Properties of the SEC extraction scripts                                *)
(***************************************************************************)
RECURSIVE SumOver(_, _)
SumOver(f, keys) ==
    IF keys = {} THEN 0
    ELSE LET k == CHOOSE x \in keys : TRUE
         IN  f[k] + SumOver(f, keys \ {k})

\* C8: in both SEC extraction scripts a fund document is copied only when no
\* file exists at its destination path: no existing output file is overwritten
\* or changed, total_found counts exactly the files the run created, and a
\* second run over filings that an earlier run already examined copies
\* nothing, leaves the output tree unchanged and reports zero found documents.
C8_DestinationDedupe ==
    mode = "sec" =>
        /\ s_clobbered = {}
        /\ \A p \in DOMAIN s_out_prev : p \in DOMAIN s_out /\ s_out[p] = s_out_prev[p]
        /\ SumOver(s_total_found, DOMAIN s_total_found)
               = Cardinality(DOMAIN s_out \ DOMAIN s_out_prev)
        /\ (s_run >= 2 /\ s_done \subseteq s_seen) =>
               /\ s_out = s_out_prev
               /\ \A t \in DOMAIN s_total_found : s_total_found[t] = 0

\* a second run has gone over every pair, all examined by the first run, which
\* copied documents
C8_Witness ==
    /\ mode = "sec"
    /\ s_run = 2
    /\ s_pos > Len(SecPairs)
    /\ s_done = {SecPairs[i] : i \in DOMAIN SecPairs}
    /\ s_done \subseteq s_seen
    /\ Cardinality(DOMAIN s_out) >= 2
    /\ s_out = s_out_prev

(***************************************************************************)
(* Properties of the search-and-download functions                         *)
(***************************************************************************)
\* the position in all_results of the first result with this URL
FirstIndex(url) ==
    CHOOSE k \in DOMAIN u_all_results :
        /\ u_all_results[k].url = url
        /\ \A j \in 1..(k - 1) : u_all_results[j].url # url

\* C9: after deduplication unique_results holds each distinct URL of
\* all_results exactly once, in order of first occurrence, and the entry kept
\* is the first result that carried the URL; no URL is requested for download
\* twice within one run of a search_and_download_* function.
C9_UrlDedupe ==
    (mode = "url" /\ u_pc \in {"download", "done"}) =>
        /\ \A i, j \in DOMAIN u_unique : i # j => u_unique[i].url # u_unique[j].url
        /\ {u_all_results[k].url : k \in DOMAIN u_all_results}
               = {u_unique[i].url : i \in DOMAIN u_unique}
        /\ \A i \in DOMAIN u_unique : u_unique[i] = u_all_results[FirstIndex(u_unique[i].url)]
        /\ \A i, j \in DOMAIN u_unique :
               i < j => FirstIndex(u_unique[i].url) < FirstIndex(u_unique[j].url)
        /\ \A i, j \in DOMAIN u_requested : i # j => u_requested[i] # u_requested[j]
        /\ \A i \in DOMAIN u_requested : u_requested[i] = u_unique[i].url

\* the searches returned one URL twice with different metadata, around another
\* URL, and both distinct URLs were requested
C9_Witness ==
    /\ mode = "url"
    /\ u_pc = "done"
    /\ Len(u_all_results) = 3
    /\ u_all_results[1].url = u_all_results[3].url
    /\ u_all_results[1] # u_all_results[3]
    /\ u_all_results[2].url # u_all_results[1].url
    /\ Len(u_unique) = 2
    /\ Len(u_requested) = 2

(***************************************************************************)
(* Properties of download_file                                             *)
(***************************************************************************)
\* the positions of the HTTP attempts among the events
AttemptEvents == {i \in DOMAIN d_events : d_events[i][1] \in {"get", "get_failed"}}

FailedEvents == {i \in DOMAIN d_events : d_events[i][1] = "get_failed"}

\* the number of failed attempts up to and including event i
FailedUpTo(i) == Cardinality({k \in FailedEvents : k <= i})

C10_Safety ==
    mode = "download" =>
        /\ Cardinality(AttemptEvents) = d_attempt
        /\ d_attempt <= 3
        /\ \A i \in DOMAIN d_events :
               d_events[i][1] = "get" =>
                   i = Len(d_events) /\ d_pc = "done" /\ d_result \in {"True", "raised"}
        /\ d_result = "True" =>
               d_events # <<>> /\ d_events[Len(d_events)][1] = "get"
        /\ \A i \in FailedEvents :
               IF FailedUpTo(i) < 3
               THEN i < Len(d_events) /\ d_events[i + 1] = <<"sleep", 2>>
               ELSE i = Len(d_events) /\ d_pc = "done" /\ d_result = "False"
        /\ \A i \in DOMAIN d_events :
               d_events[i][1] = "sleep" => i > 1 /\ d_events[i - 1][1] = "get_failed"
        /\ d_result = "False" => Cardinality(FailedEvents) = 3
        /\ d_pc = "done" <=> d_result # ""

\* C10: every call of download_file terminates after at most 3 HTTP attempts;
\* the first successful attempt ends the call with True and no further attempt;
\* each failed attempt except the third is followed by a sleep of the same 2
\* seconds; the third failed attempt returns False with no sleep after it.
C10_BoundedRetry == []C10_Safety /\ <>(d_pc = "done")

\* three attempts failed, on a URL whose space was encoded, and the call
\* returned False after two sleeps
C10_Witness ==
    /\ mode = "download"
    /\ d_result = "False"
    /\ d_attempt = 3
    /\ Len(d_events) = 5
    /\ d_events[5][1] = "get_failed"
    /\ StrContains(d_url, "%20")

(***************************************************************************)
(* Properties of the download_*_documents functions                        *)
(***************************************************************************)
\* the documents gone through with one of these outcomes
LoggedAs(hows) == {i \in DOMAIN f_log : f_log[i].how \in hows}

\* C11: when download_file returns False for a document the function does not
\* count it and does not abort: the documents are gone through in configured
\* order, the run ends early only when download_file raises, a run that
\* returns has gone through every configured document, and total_downloaded is
\* the number of documents that existed plus the number downloaded
\* successfully, never more than the number of configured documents.
C11_SkipOnlyFailed ==
    mode = "formation" =>
        /\ \A i \in DOMAIN f_log : f_log[i].doc = i
        /\ f_total = Cardinality(LoggedAs({"skipped", "True"}))
        /\ f_total <= Len(ConfiguredDocs(f_fn))
        /\ \A i \in LoggedAs({"raised"}) : i = Len(f_log) /\ f_pc = "aborted"
        /\ f_pc = "aborted" => f_log # <<>> /\ f_log[Len(f_log)].how = "raised"
        /\ \A i \in LoggedAs({"False"}) :
               f_pc \in {"loop", "call", "done"} \/ i < Len(f_log)
        /\ f_pc \in {"loop", "call"} => f_idx = Len(f_log)
        /\ f_pc = "done" => Len(f_log) = Len(ConfiguredDocs(f_fn))

\* a run returned after one document failed all retries, a later one was
\* downloaded and another one existed
C11_Witness ==
    /\ mode = "formation"
    /\ f_pc = "done"
    /\ Len(f_log) = 3
    /\ \E i, j \in DOMAIN f_log : i < j /\ f_log[i].how = "False" /\ f_log[j].how = "True"
    /\ LoggedAs({"skipped"}) # {}
    /\ f_total = 2

(***************************************************************************)
(* Properties of download_cuad_zip and extract_cuad_zip                    *)
(***************************************************************************)
\* C12: the sources are tried in order, a source that succeeds is the last one
\* contacted, and the only thing that ends a CUAD run before the PDFs are
\* organized is that every source of CUAD_SOURCES was tried and failed.
C12_AbortOnlyWhenAllSourcesFail ==
    mode = "zip" =>
        /\ \A i \in DOMAIN z_tried : z_tried[i].src = i
        /\ \A i \in DOMAIN z_tried : z_tried[i].outcome = "ok" => i = Len(z_tried)
        /\ z_pc = "aborted" =>
               /\ Len(z_tried) = Len(CUAD_SOURCES)
               /\ \A i \in DOMAIN z_tried : z_tried[i].outcome # "ok"
               /\ z_abort = "no_source"

(***************************************************************************)
(* Properties of the requests of the SEC extraction scripts                *)
(***************************************************************************)
\* C13: after each outbound request a sleep is executed before the next
\* request is issued: no request directly follows another request.
C13_SleepBetweenRequests == mode = "sec" => ~s_unpaced

\* the pair at this position has no downloaded-filings directory
PairHasNoFilings(pos) ==
    {f \in s_disk : f.ticker = SecPairs[pos][1] /\ f.ftype = SecPairs[pos][2]} = {}

\* C14: in both SEC extraction scripts a pair whose downloader call raises or
\* whose filings directory is missing copies nothing and changes no counter,
\* and after every pair, whatever happened, the same run goes on with the next
\* pair.
C14_MissingIsEmpty ==
    [][(mode = "sec" /\ s_pos <= Len(SecPairs)) =>
           /\ s_pos' = s_pos + 1
           /\ s_run' = s_run
           /\ (s_failures' # s_failures \/ PairHasNoFilings(s_pos)) =>
                  s_out' = s_out /\ s_total_found' = s_total_found]_vars

\* a run ended in which the downloader raised for the first pair, whose filings
\* are on disk, another pair had no filings, and documents of later pairs were
\* copied
C14_Witness ==
    /\ mode = "sec"
    /\ s_run = 1
    /\ s_pos > Len(SecPairs)
    /\ s_failures = 1
    /\ SecPairs[1] \notin s_done
    /\ ~PairHasNoFilings(1)
    /\ \E n \in DOMAIN SecPairs : SecPairs[n] \in s_done /\ PairHasNoFilings(n)
    /\ DOMAIN s_out # {}

(***************************************************************************)
(* Properties of find_fund_docs_in_filing                                  *)
(***************************************************************************)
FindDone(script) == mode = "find" /\ g_pc = "done" /\ g_script = script

FilingFiles == {g_files[i] : i \in DOMAIN g_files}

\* the positions of the entries returned for a file
EntriesOf(f) == {i \in DOMAIN g_result : g_result[i].file = f}

\* the function of the script under call, applied to another list of files
FindIn(files) ==
    IF g_script = "filings" THEN find_fund_docs_filings(files, 1)
    ELSE find_fund_docs_expanded(files, 1)

Readable(f) == f.readable

\* C15: in both scripts a file whose open or read raises contributes no entry,
\* and the result is what the other files of the filing yield, in their order:
\* entries collected before it are kept and the files after it are examined.
C15_UnreadableSkipsOnlyThat ==
    (mode = "find" /\ g_pc = "done") =>
        /\ \A f \in FilingFiles : ~f.readable => EntriesOf(f) = {}
        /\ g_result = FindIn(SelectSeq(g_files, Readable))

\* an unreadable document file came first and the file after it was classified
C15_Witness ==
    /\ mode = "find" /\ g_pc = "done"
    /\ Len(g_files) = 2
    /\ ~g_files[1].readable /\ EndsWith(g_files[1].name, ".htm")
    /\ EntriesOf(g_files[2]) # {}

\* C16: in download_fund_sec_filings.py find_fund_docs_in_filing returns at
\* most one entry for every file of the filing.
C16_OneCategoryPerFile ==
    FindDone("filings") => \A f \in FilingFiles : Cardinality(EntriesOf(f)) <= 1

\* the categories of FUND_DOC_KEYWORDS, by position, that have a keyword in
\* the lower-cased text or, without spaces or hyphenated, in the lower-cased
\* file name
MatchingCategories(f) ==
    LET text == StrLower(f.text)
        name == StrLower(f.name)
    IN  {k \in DOMAIN ExpandedDocTypes :
            \E j \in DOMAIN FUND_DOC_KEYWORDS[ExpandedDocTypes[k]] :
                LET kw == FUND_DOC_KEYWORDS[ExpandedDocTypes[k]][j]
                IN  \/ StrContains(text, kw)
                    \/ StrContains(name, ReplaceChar(kw, " ", ""))
                    \/ StrContains(name, ReplaceChar(kw, " ", "-"))}

FirstCategory(f) ==
    ExpandedDocTypes[CHOOSE k \in MatchingCategories(f) :
                         \A m \in MatchingCategories(f) : k <= m]

\* files download_fund_sec_expanded.py does not look into
NotExamined(f) ==
    \/ StrContains(StrLower(f.name), "index")
    \/ SubSeq(f.name, 1, 1) = "."
    \/ \A ext \in {".htm", ".html", ".txt", ".xml"} : ~EndsWith(StrLower(f.name), ext)

\* C18: in download_fund_sec_expanded.py a file gets at most one entry, whose
\* doc_type is the first category in declaration order with a keyword in the
\* content or (spaces removed or hyphenated) in the file name; files with no
\* matching keyword, index files, dot-files and files with another extension
\* get no entry.
C18_FirstCategoryWins ==
    FindDone("expanded") =>
        /\ \A f \in FilingFiles : Cardinality(EntriesOf(f)) <= 1
        /\ \A i \in DOMAIN g_result :
               /\ MatchingCategories(g_result[i].file) # {}
               /\ g_result[i].doc_type = FirstCategory(g_result[i].file)
               /\ g_result[i].filename = g_result[i].file.name
        /\ \A f \in FilingFiles :
               (MatchingCategories(f) = {} \/ NotExamined(f)) => EntriesOf(f) = {}

\* a file matching two categories was classified as the earlier one, and a
\* file was classified by its name alone
C18_Witness ==
    /\ FindDone("expanded")
    /\ \E i \in DOMAIN g_result :
          /\ Cardinality(MatchingCategories(g_result[i].file)) = 2
          /\ g_result[i].doc_type = "investment_mgmt"
    /\ \E i \in DOMAIN g_result :
          /\ g_result[i].doc_type = "side_letter"
          /\ ~StrContains(StrLower(g_result[i].file.text), "letter")

\* the number of characters `f.read(100000)` returns
ExcerptLen(f) == IF f.size < 100000 THEN f.size ELSE 100000

\* C19: in download_fund_sec_expanded.py every returned entry belongs to a
\* file whose excerpt is longer than 5000 characters, and a file with a
\* matching category whose excerpt has 5000 characters or fewer gets no entry.
C19_SubstantialOnly ==
    FindDone("expanded") =>
        /\ \A i \in DOMAIN g_result : ExcerptLen(g_result[i].file) > 5000
        /\ \A f \in FilingFiles :
               (MatchingCategories(f) # {} /\ ExcerptLen(f) <= 5000) => EntriesOf(f) = {}

\* a readable file of exactly 5000 characters matching two categories got no
\* entry, next to a file of 5001 characters that got one
C19_Witness ==
    /\ FindDone("expanded")
    /\ \E f \in FilingFiles :
          /\ f.readable /\ ~NotExamined(f)
          /\ ExcerptLen(f) = 5000
          /\ Cardinality(MatchingCategories(f)) = 2
          /\ EntriesOf(f) = {}
    /\ \E i \in DOMAIN g_result : ExcerptLen(g_result[i].file) = 5001

(***************************************************************************)
(* Properties of the documents of a CUAD run                               *)
(***************************************************************************)
SeqRange(q) == {q[i] : i \in DOMAIN q}

\* the paths held in the matters of all practice areas
HeldPaths ==
    UNION {UNION {SeqRange(matter_docs[a][k]) : k \in DOMAIN matter_docs[a]} :
               a \in DOMAIN matter_docs}

RECURSIVE HeldCount(_)
\* the number of documents held in the matters of these practice areas
HeldCount(areas) ==
    IF areas = {} THEN 0
    ELSE LET a == CHOOSE x \in areas : TRUE
         IN  DocsHeld(a) + HeldCount(areas \ {a})

RECURSIVE SumDocs(_)
\* the number of documents handed to save_matter by these calls
SumDocs(calls) == IF calls = <<>> THEN 0 ELSE Len(Head(calls).docs) + SumDocs(Tail(calls))

SavedPaths == UNION {SeqRange(saves[i].docs) : i \in DOMAIN saves}

\* C17: in a CUAD run the discovered PDF paths are distinct, every one is held
\* at most once over all matters of all practice areas, and every one is
\* handed to save_matter, and so copied, at most once.
C17_NoDuplicateDocument ==
    mode = "cuad" =>
        /\ Cardinality(SeqRange(pdf_files)) = Len(pdf_files)
        /\ HeldPaths \subseteq SeqRange(pdf_files)
        /\ Cardinality(HeldPaths) = HeldCount(DOMAIN matter_docs)
        /\ Cardinality(SavedPaths) = SumDocs(saves)

\* a run ended that filled a matter and held documents of two practice areas
C17_Witness ==
    /\ RunEnded
    /\ Cardinality(HeldPaths) > DOCS_PER_MATTER
    /\ Cardinality({a \in DOMAIN matter_docs : DocsHeld(a) > 0}) >= 2
    /\ Len(saves) >= 2

\* C20: a copy of save_matter never targets a path at which a file exists, so
\* saving into empty matter folders leaves as many files as documents saved.
C20_NoOverwrite ==
    (mode = "cuad" /\ run = 1) =>
        /\ clobbered = {}
        /\ Cardinality(DOMAIN out_fs) = SumDocs(saves)

(***************************************************************************)
(* Properties of the matter structure and of the per-area target           *)
(***************************************************************************)
\* the matters of area a that hold a document
NonEmptyMatters(a) == {k \in DOMAIN matter_docs[a] : matter_docs[a][k] # <<>>}

\* main is in or past its loop, so matter_counts and matter_docs are set
InOrPastLoop == mode = "cuad" /\ pc \in {"loop", "flush", "done"} /\ pdf_files # <<>>

\* C21: for every practice area the matter numbers are 1..k with k at most
\* TARGET_MATTERS_PER_AREA and the count is in 0..TARGET_MATTERS_PER_AREA; in
\* the loop the matters 1..count hold DOCS_PER_MATTER documents each and were
\* saved and at most the matter count+1 is open, with 1..DOCS_PER_MATTER-1
\* documents; after the final flush the count is the number of non-empty
\* matters.
C21_MatterStructure ==
    InOrPastLoop =>
        \A a \in AreaSet :
            LET keys  == DOMAIN matter_docs[a]
                count == matter_counts[a]
            IN  /\ keys = 1..Cardinality(keys)
                /\ Cardinality(keys) <= TARGET_MATTERS_PER_AREA
                /\ count \in 0..TARGET_MATTERS_PER_AREA
                /\ IF pc = "done"
                   THEN count = Cardinality(NonEmptyMatters(a))
                   ELSE /\ \A k \in 1..count :
                              /\ k \in keys
                              /\ Len(matter_docs[a][k]) = DOCS_PER_MATTER
                              /\ SavesOf(a, k) # {}
                        /\ keys \subseteq 1..(count + 1)
                        /\ (count + 1) \in keys =>
                              Len(matter_docs[a][count + 1]) \in 1..(DOCS_PER_MATTER - 1)

\* in the loop, an area with a saved matter and an open second matter
C21_Witness ==
    /\ mode = "cuad" /\ pc = "loop"
    /\ \E a \in AreaSet :
          /\ matter_counts[a] >= 1
          /\ (matter_counts[a] + 1) \in DOMAIN matter_docs[a]
          /\ SavesOf(a, 1) # {}

\* what a loop iteration or the final flush can change of the matters
MatterState == <<matter_docs, matter_counts, saves, out_fs>>

\* C22: a PDF classified into a practice area that has TARGET_MATTERS_PER_AREA
\* saved matters changes no matter, no counter and no output file; once all
\* practice areas have that many saved matters the loop is left without
\* another append and the final flush saves nothing.
C22_QuotaAndEarlyStop ==
    [][ (mode = "cuad" /\ pc \in {"loop", "flush"}) =>
           LET more == pc = "loop" /\ processed < Len(pdf_files)
               full == IF more
                       THEN matter_counts[classify_by_filename(
                                basename(pdf_files[processed + 1]))]
                                >= TARGET_MATTERS_PER_AREA
                       ELSE FALSE
               all  == \A a \in AreaSet : matter_counts[a] >= TARGET_MATTERS_PER_AREA
           IN  /\ full => UNCHANGED MatterState
               /\ all => (pc' # "loop" /\ UNCHANGED MatterState) ]_vars

\* a run that skipped a PDF of an area at its target and then left the loop by
\* the break with every area at its target
C22_Witness ==
    /\ RunEnded
    /\ pdf_files # <<>>
    /\ \A a \in AreaSet : matter_counts[a] = TARGET_MATTERS_PER_AREA
    /\ Cardinality(HeldPaths) < processed - 1

(***************************************************************************)
(* Properties of the files left by download_file                           *)
(***************************************************************************)
\* C24: when download_file returns False for a destination at which no file
\* existed, no file exists there afterwards: the destination of a document
\* logged as failed holds no file that a later run would skip as already
\* downloaded.
C24_FailedLeavesNoFile ==
    mode = "formation" =>
        /\ (f_pc = "call" /\ d_pc = "done" /\ d_result = "False") => d_file = "absent"
        /\ \A i \in DOMAIN f_log :
              f_log[i].how = "False" =>
                  DestFile(f_fn, ConfiguredDocs(f_fn)[f_log[i].doc]) \notin DOMAIN f_fs

(***************************************************************************)
(* Properties of the cached CUAD archive                                   *)
(***************************************************************************)
\* C25: whenever download_cuad_zip returns the zip path, from the
\* already-downloaded shortcut or from a download of this run, the file at
\* that path was written in full by one download that completed.
C25_CachedZipComplete ==
    (mode = "zip" /\ z_pc = "extract") => (z_zip.exists /\ z_zip.complete)

(***************************************************************************)
(* Properties of the routing of categories in the SEC extraction scripts   *)
(***************************************************************************)
\* the output path lies in this folder of OUTPUT_PATH
InFolder(out_path, folder) ==
    /\ Len(out_path) > Len(folder)
    /\ SubSeq(out_path, 1, Len(folder) + 1) = folder \o "/"

\* the entries find_fund_docs_in_filing of the running script returns for the
\* files on disk
DiskEntries ==
    IF s_script = "filings" THEN find_fund_docs_filings(SetToSeq(s_disk), 1)
    ELSE find_fund_docs_expanded(SetToSeq(s_disk), 1)

\* the doc_types under which a file on disk is returned
DocTypesOf(entries, f) ==
    {entries[i].doc_type : i \in {j \in DOMAIN entries : entries[j].file = f}}

\* the loops over tickers and filing types of the current run have ended
RunOver == s_pos > Len(SecPairs)

====
